---- MODULE Spec2Model ----
(***************************************************************************)
(* A model of yts3: files embedded in lossless video.                      *)
(*                                                                         *)
(* Bytes are the integers 0..255, byte strings are sequences of bytes.     *)
(* Every component has a specification of its own over the same           *)
(* variables:                                                              *)
(*   SpecChunker  chunk_file (the read loop) and chunk_bytes               *)
(*   SpecPacket   serialize_packet and deserialize_packet                  *)
(*   SpecScan     scan_for_packets                                         *)
(*   SpecCrypto   encrypt_chunk and decrypt_chunk                          *)
(*   SpecFountain encode_chunk and ChunkDecoder                            *)
(*   SpecDct      DctTables::new and extract_bit                           *)
(*   SpecVideo    encode_to_file's batches and subprocess, the frames      *)
(*                read back by decode_from_file                            *)
(*   Spec         roundtrip: encode_file, the hook, decode_file, with the  *)
(*                no-op hook and no failure of the file system              *)
(*   SpecHooked   roundtrip with hooks that fail, lose or alter packets,   *)
(*                and with input and output failures                       *)
(***************************************************************************)
EXTENDS Integers, Sequences, FiniteSets, TLC

VARIABLES
    \* chunker: the input, the chunk size, chunk_file's locals, chunk_bytes' result
    ck_data, ck_size, ck_pc, ck_pos, ck_filled, ck_eof, ck_chunks, ck_index,
    ck_total_read, cb_chunks,
    \* packet: serialize_packet's arguments, the serialized bytes, whether a
    \* payload byte was altered, deserialize_packet's result (a set: empty before the call)
    pk_in, pk_wire, pk_tampered, pk_out,
    \* scan_for_packets: the segments the stream was made of, the stream, the
    \* loop's offset and packets, where each returned packet started, the position
    sc_segs, sc_data, sc_offset, sc_packets, sc_starts, sc_iter, sc_pc,
    \* crypto: encrypt_chunk's arguments, the sealed bytes, whether they were
    \* truncated, decrypt_chunk's arguments and its result (sets: empty before the call)
    cr_in, cr_sealed, cr_cut, cr_call, cr_out,
    \* fountain: encode_chunk's arguments, the symbols it made, the published
    \* k, the rows the ChunkDecoder was given in the order of add_symbol, the
    \* decoder's position, recover's result (a set: empty before the call)
    fn_in, fn_symbols, fn_k, fn_rows, fn_pc, fn_out,
    \* DCT: the coefficient strength, the tables built from it, the block
    \* handed to extract_bit, its result (a set: empty before the call), the
    \* position
    dc_strength, dc_tables, dc_block, dc_bit, dc_pc,
    \* encode_to_file: its arguments and the number of worker threads, the
    \* position, frame_idx, the frames of the batch (None until its worker
    \* ran), the frames written to the subprocess's stdin, whether stdin is
    \* open, the exit status, the result (sets: empty until known), the bytes
    \* decode_from_file reads back
    vd_in, vd_pc, vd_frame_idx, vd_frames, vd_stdin, vd_stdin_open, vd_status, vd_out,
    vd_decoded,
    \* decode_from_file: the codec's stdout and the number of worker threads,
    \* the position, the bytes of stdout consumed, the bytes of frame_buf
    \* filled, the batch (each frame with its extracted bytes, None until its
    \* worker ran), all_data, frame_count, the result (a set: empty until known)
    rd_in, rd_pc, rd_pos, rd_filled, rd_batch, rd_all_data, rd_frame_count, rd_out,
    \* encode_file's worker for one chunk: the chunk, the password, the file id
    \* and the configuration, the position, chunk_data (None until made), the
    \* worker's result (a set: empty until known)
    em_in, em_pc, em_data, em_out,
    \* roundtrip: its arguments (input bytes, password, configuration), its
    \* position, the video file, the output file, its result (a set: empty
    \* while it runs)
    rt_in, rt_pc, rt_video, rt_output, rt_result,
    \* roundtrip: the hook it was given and what the file system does, the
    \* steps it has started, the hook's result (a set: empty before the call),
    \* the file the hook wrote at a path of its own
    rt_env, rt_trace, hk_out, hk_video,
    \* encode_file: the file id, the key, the chunks, the packets of each chunk
    \* (None until its worker ran), the calls of encrypt_chunk made so far,
    \* the packet stream, the binding k of the key that is zeroed
    en_file_id, en_key, en_chunks, en_chunk_packets, en_calls, en_stream, en_k,
    \* decode_file: the path it reads, the packets scanned, the file id and the
    \* key, the sorted chunk indices, the data of each chunk (None until its
    \* worker ran), the binding k of the key that is zeroed
    de_path, de_packets, de_file_id, de_key, de_chunk_indices, de_decoded, de_k

ck_vars == <<ck_data, ck_size, ck_pc, ck_pos, ck_filled, ck_eof, ck_chunks,
             ck_index, ck_total_read, cb_chunks>>

pk_vars == <<pk_in, pk_wire, pk_tampered, pk_out>>

sc_vars == <<sc_segs, sc_data, sc_offset, sc_packets, sc_starts, sc_iter, sc_pc>>

cr_vars == <<cr_in, cr_sealed, cr_cut, cr_call, cr_out>>

fn_vars == <<fn_in, fn_symbols, fn_k, fn_rows, fn_pc, fn_out>>

dc_vars == <<dc_strength, dc_tables, dc_block, dc_bit, dc_pc>>

vd_vars == <<vd_in, vd_pc, vd_frame_idx, vd_frames, vd_stdin, vd_stdin_open, vd_status,
             vd_out, vd_decoded>>

rd_vars == <<rd_in, rd_pc, rd_pos, rd_filled, rd_batch, rd_all_data, rd_frame_count, rd_out>>

em_vars == <<em_in, em_pc, em_data, em_out>>

en_vars == <<en_file_id, en_key, en_chunks, en_chunk_packets, en_calls, en_stream, en_k>>

de_vars == <<de_path, de_packets, de_file_id, de_key, de_chunk_indices, de_decoded, de_k>>

hk_vars == <<rt_env, rt_trace, hk_out, hk_video>>

rt_vars == <<rt_in, rt_pc, rt_video, rt_output, rt_result, hk_vars, en_vars, de_vars>>

vars == <<ck_vars, pk_vars, sc_vars, cr_vars, fn_vars, dc_vars, vd_vars, rd_vars, em_vars, rt_vars>>

\* the variables a component's specification leaves alone
ck_others == <<pk_vars, sc_vars, cr_vars, fn_vars, dc_vars, vd_vars, rd_vars, em_vars, rt_vars>>
pk_others == <<ck_vars, sc_vars, cr_vars, fn_vars, dc_vars, vd_vars, rd_vars, em_vars, rt_vars>>
sc_others == <<ck_vars, pk_vars, cr_vars, fn_vars, dc_vars, vd_vars, rd_vars, em_vars, rt_vars>>
cr_others == <<ck_vars, pk_vars, sc_vars, fn_vars, dc_vars, vd_vars, rd_vars, em_vars, rt_vars>>
fn_others == <<ck_vars, pk_vars, sc_vars, cr_vars, dc_vars, vd_vars, rd_vars, em_vars, rt_vars>>
dc_others == <<ck_vars, pk_vars, sc_vars, cr_vars, fn_vars, vd_vars, rd_vars, em_vars, rt_vars>>
vd_others == <<ck_vars, pk_vars, sc_vars, cr_vars, fn_vars, dc_vars, rd_vars, em_vars, rt_vars>>
rd_others == <<ck_vars, pk_vars, sc_vars, cr_vars, fn_vars, dc_vars, vd_vars, em_vars, rt_vars>>
em_others == <<ck_vars, pk_vars, sc_vars, cr_vars, fn_vars, dc_vars, vd_vars, rd_vars, rt_vars>>
rt_others == <<ck_vars, pk_vars, sc_vars, cr_vars, fn_vars, dc_vars, vd_vars, rd_vars, em_vars>>

\* the other components at rest
ck_idle ==
    /\ ck_data = <<>> /\ ck_size = 1 /\ ck_pc = "idle" /\ ck_pos = 0 /\ ck_filled = 0
    /\ ck_eof = FALSE /\ ck_chunks = <<>> /\ ck_index = 0 /\ ck_total_read = 0
    /\ cb_chunks = <<>>
pk_idle ==
    /\ pk_in = "none" /\ pk_wire = <<>> /\ pk_tampered = FALSE /\ pk_out = {}
sc_idle ==
    /\ sc_segs = <<>> /\ sc_data = <<>> /\ sc_offset = 0 /\ sc_packets = <<>>
    /\ sc_starts = <<>> /\ sc_iter = 0 /\ sc_pc = "idle"
cr_idle ==
    /\ cr_in = "none" /\ cr_sealed = <<>> /\ cr_cut = FALSE /\ cr_call = {} /\ cr_out = {}
fn_idle ==
    /\ fn_in = "none" /\ fn_symbols = <<>> /\ fn_k = 0 /\ fn_rows = <<>>
    /\ fn_pc = "idle" /\ fn_out = {}
dc_idle ==
    /\ dc_strength = "none" /\ dc_tables = <<>> /\ dc_block = <<>> /\ dc_bit = {}
    /\ dc_pc = "idle"
vd_idle ==
    /\ vd_in = "none" /\ vd_pc = "idle" /\ vd_frame_idx = 0 /\ vd_frames = <<>>
    /\ vd_stdin = <<>> /\ vd_stdin_open = FALSE /\ vd_status = {} /\ vd_out = {}
    /\ vd_decoded = <<>>
rd_idle ==
    /\ rd_in = "none" /\ rd_pc = "idle" /\ rd_pos = 0 /\ rd_filled = 0 /\ rd_batch = <<>>
    /\ rd_all_data = <<>> /\ rd_frame_count = 0 /\ rd_out = {}
em_idle ==
    /\ em_in = "none" /\ em_pc = "idle" /\ em_data = <<>> /\ em_out = {}
rt_idle ==
    /\ rt_in = "none" /\ rt_pc = "idle" /\ rt_video = <<>> /\ rt_output = <<>>
    /\ rt_result = {}
    /\ rt_env = "none" /\ rt_trace = <<>> /\ hk_out = {} /\ hk_video = <<>>
    /\ en_file_id = <<>> /\ en_key = <<>> /\ en_chunks = <<>> /\ en_chunk_packets = <<>>
    /\ en_calls = <<>> /\ en_stream = <<>> /\ en_k = <<>>
    /\ de_path = <<>> /\ de_packets = <<>> /\ de_file_id = <<>> /\ de_key = <<>>
    /\ de_chunk_indices = <<>> /\ de_decoded = <<>> /\ de_k = <<>>
ck_others_idle == pk_idle /\ sc_idle /\ cr_idle /\ fn_idle /\ dc_idle /\ vd_idle /\ rd_idle /\ em_idle /\ rt_idle
pk_others_idle == ck_idle /\ sc_idle /\ cr_idle /\ fn_idle /\ dc_idle /\ vd_idle /\ rd_idle /\ em_idle /\ rt_idle
sc_others_idle == ck_idle /\ pk_idle /\ cr_idle /\ fn_idle /\ dc_idle /\ vd_idle /\ rd_idle /\ em_idle /\ rt_idle
cr_others_idle == ck_idle /\ pk_idle /\ sc_idle /\ fn_idle /\ dc_idle /\ vd_idle /\ rd_idle /\ em_idle /\ rt_idle
fn_others_idle == ck_idle /\ pk_idle /\ sc_idle /\ cr_idle /\ dc_idle /\ vd_idle /\ rd_idle /\ em_idle /\ rt_idle
dc_others_idle == ck_idle /\ pk_idle /\ sc_idle /\ cr_idle /\ fn_idle /\ vd_idle /\ rd_idle /\ em_idle /\ rt_idle
vd_others_idle == ck_idle /\ pk_idle /\ sc_idle /\ cr_idle /\ fn_idle /\ dc_idle /\ rd_idle /\ em_idle /\ rt_idle
rd_others_idle == ck_idle /\ pk_idle /\ sc_idle /\ cr_idle /\ fn_idle /\ dc_idle /\ vd_idle /\ em_idle /\ rt_idle
em_others_idle == ck_idle /\ pk_idle /\ sc_idle /\ cr_idle /\ fn_idle /\ dc_idle /\ vd_idle /\ rd_idle /\ rt_idle
rt_others_idle == ck_idle /\ pk_idle /\ sc_idle /\ cr_idle /\ fn_idle /\ dc_idle /\ vd_idle /\ rd_idle /\ em_idle

----------------------------------------------------------------------------
(* Bounds of the model *)

\* the longest input of the chunker
MaxFileLen == 4
\* the largest chunk size handed to the chunker
MaxChunkSize == 3

\* the longest payload of a packet handed to serialize_packet, but for the
\* oversize one
MaxPayloadLen == 2
\* the longest run of filler bytes between the packets of a scanned stream
MaxGarbageLen == 2

\* the byte values input files are made of
FileBytes == {0, 171}

----------------------------------------------------------------------------
(* Helpers *)

Min(a, b) == IF a < b THEN a ELSE b
Max(a, b) == IF a > b THEN a ELSE b

SeqsUpTo(S, n) == UNION {[1..m -> S] : m \in 0..n}

RECURSIVE ConcatRange(_, _, _)
\* the concatenation of the elements lo..hi of a sequence of sequences
ConcatRange(ss, lo, hi) ==
    IF lo > hi THEN <<>>
    ELSE IF lo = hi THEN ss[lo]
    ELSE LET mid == (lo + hi) \div 2
         IN  ConcatRange(ss, lo, mid) \o ConcatRange(ss, mid + 1, hi)

\* the concatenation of a sequence of sequences
Concat(ss) == ConcatRange(ss, 1, Len(ss))


RECURSIVE XorBits(_, _, _)
\* the exclusive or of the low n bits of a and b
XorBits(a, b, n) ==
    IF n = 0 THEN 0 ELSE ((a + b) % 2) + 2 * XorBits(a \div 2, b \div 2, n - 1)

\* the exclusive or of two bytes, tabulated
XorTable == [a \in 0..255 |-> [b \in 0..255 |-> XorBits(a, b, 8)]]

Xor(a, b) == XorTable[a][b]

\* n zero bytes
Zeros(n) == [i \in 1..n |-> 0]

\* byteorder::LittleEndian::write_u16 / write_u32
write_u16(v) == <<v % 256, (v \div 256) % 256>>
write_u32(v) == <<v % 256, (v \div 256) % 256, (v \div 65536) % 256, (v \div 16777216) % 256>>

\* byteorder::LittleEndian::read_u16 / read_u32 at 0-based offset off
read_u16(b, off) == b[off + 1] + 256 * b[off + 2]
read_u32(b, off) == b[off + 1] + 256 * b[off + 2] + 65536 * b[off + 3] + 16777216 * b[off + 4]

\* data[from..to] of Rust: 0-based, to excluded
Slice(data, from, to) == SubSeq(data, from + 1, to)

----------------------------------------------------------------------------
(* chunker/mod.rs *)

\* struct Chunk
Chunk(index, data, is_last) == [index |-> index, data |-> data, is_last |-> is_last]

RECURSIVE slice_chunks(_, _)
\* <[u8]>::chunks(chunk_size): slices of chunk_size bytes, the last one shorter
slice_chunks(data, chunk_size) ==
    IF Len(data) = 0 THEN <<>>
    ELSE LET n == Min(chunk_size, Len(data))
         IN  <<SubSeq(data, 1, n)>> \o slice_chunks(SubSeq(data, n + 1, Len(data)), chunk_size)

\* chunk_bytes numbering the chunks from 1
chunk_bytes_IndexFromOne(data, chunk_size) ==
    IF Len(data) = 0
    THEN <<Chunk(0, <<>>, TRUE)>>
    ELSE LET num_chunks == (Len(data) + chunk_size - 1) \div chunk_size
             slices == slice_chunks(data, chunk_size)
         IN  [i \in 1..Len(slices) |-> Chunk(i, slices[i], (i - 1) = num_chunks - 1)]

\* chunk_bytes with num_chunks rounded down, so that an input that is not a
\* whole number of chunks flags the chunk before the last
chunk_bytes_FloorCount(data, chunk_size) ==
    IF Len(data) = 0
    THEN <<Chunk(0, <<>>, TRUE)>>
    ELSE LET num_chunks == Len(data) \div chunk_size
             slices == slice_chunks(data, chunk_size)
         IN  [i \in 1..Len(slices) |-> Chunk(i - 1, slices[i], (i - 1) = num_chunks - 1)]

\* chunk_bytes: split an in-memory buffer into chunks
chunk_bytes(data, chunk_size) ==
    IF Len(data) = 0
    THEN <<Chunk(0, <<>>, TRUE)>>
    ELSE LET num_chunks == (Len(data) + chunk_size - 1) \div chunk_size
             slices == slice_chunks(data, chunk_size)
         IN  [i \in 1..Len(slices) |-> Chunk(i - 1, slices[i], (i - 1) = num_chunks - 1)]

\* the state before chunk_file and chunk_bytes are called
ChunkerInit ==
    /\ ck_data \in SeqsUpTo(FileBytes, MaxFileLen)
    /\ ck_size \in 1..MaxChunkSize
    /\ ck_pc = "read"
    /\ ck_pos = 0
    /\ ck_filled = 0
    /\ ck_eof = FALSE
    /\ ck_chunks = <<>>
    /\ ck_index = 0
    /\ ck_total_read = 0
    /\ cb_chunks = <<>>
    /\ ck_others_idle

\* chunk_file, one reader.read() of the inner loop: Ok(0) at the end of the file,
\* else Ok(n) with 1 <= n <= the room left in buf
CfRead ==
    /\ ck_pc = "read"
    /\ ck_filled < ck_size
    /\ ~ck_eof
    /\ IF ck_pos = Len(ck_data)
       THEN /\ ck_eof' = TRUE
            /\ UNCHANGED <<ck_pos, ck_filled>>
       ELSE \E n \in 1..Min(ck_size - ck_filled, Len(ck_data) - ck_pos) :
                /\ ck_filled' = ck_filled + n
                /\ ck_pos' = ck_pos + n
                /\ UNCHANGED ck_eof
    /\ UNCHANGED <<ck_data, ck_size, ck_pc, ck_chunks, ck_index, ck_total_read, cb_chunks>>
    /\ UNCHANGED ck_others

\* chunk_file, a reader.read() that fails with an error other than Interrupted
CfReadErr ==
    /\ ck_pc = "read"
    /\ ck_filled < ck_size
    /\ ~ck_eof
    /\ ck_pc' = "err"
    /\ UNCHANGED <<ck_data, ck_size, ck_pos, ck_filled, ck_eof, ck_chunks, ck_index,
                   ck_total_read, cb_chunks>>
    /\ UNCHANGED ck_others

\* chunk_file's loop body run after a single read, without waiting for buf to
\* fill
CfPush_SingleRead ==
    /\ ck_pc = "read"
    /\ (ck_filled >= 1 \/ ck_eof)
    /\ IF ck_filled = 0
       THEN /\ ck_chunks' = IF ck_chunks = <<>> THEN ck_chunks
                            ELSE [ck_chunks EXCEPT ![Len(ck_chunks)].is_last = TRUE]
            /\ ck_pc' = "after"
            /\ UNCHANGED <<ck_index, ck_total_read, ck_filled, ck_eof>>
       ELSE LET total == ck_total_read + ck_filled
                is_last == total >= Len(ck_data)
            IN  /\ ck_total_read' = total
                /\ ck_chunks' = Append(ck_chunks,
                       Chunk(ck_index, SubSeq(ck_data, ck_pos - ck_filled + 1, ck_pos), is_last))
                /\ ck_index' = ck_index + 1
                /\ ck_filled' = 0
                /\ ck_eof' = FALSE
                /\ ck_pc' = IF is_last THEN "after" ELSE "read"
    /\ UNCHANGED <<ck_data, ck_size, ck_pos, cb_chunks>>
    /\ UNCHANGED ck_others

\* chunk_file, the outer loop's body after the reads: nothing read marks the
\* previous chunk last and leaves the loop; else the chunk is pushed
CfPush ==
    /\ ck_pc = "read"
    /\ (ck_filled = ck_size \/ ck_eof)
    /\ IF ck_filled = 0
       THEN /\ ck_chunks' = IF ck_chunks = <<>> THEN ck_chunks
                            ELSE [ck_chunks EXCEPT ![Len(ck_chunks)].is_last = TRUE]
            /\ ck_pc' = "after"
            /\ UNCHANGED <<ck_index, ck_total_read, ck_filled, ck_eof>>
       ELSE LET total == ck_total_read + ck_filled
                is_last == total >= Len(ck_data)
            IN  /\ ck_total_read' = total
                /\ ck_chunks' = Append(ck_chunks,
                       Chunk(ck_index, SubSeq(ck_data, ck_pos - ck_filled + 1, ck_pos), is_last))
                /\ ck_index' = ck_index + 1
                /\ ck_filled' = 0
                /\ ck_eof' = FALSE
                /\ ck_pc' = IF is_last THEN "after" ELSE "read"
    /\ UNCHANGED <<ck_data, ck_size, ck_pos, cb_chunks>>
    /\ UNCHANGED ck_others

\* chunk_file, after the loop: the empty file's single chunk, then Ok(chunks)
CfReturn ==
    /\ ck_pc = "after"
    /\ ck_chunks' = IF ck_chunks = <<>> THEN <<Chunk(0, <<>>, TRUE)>> ELSE ck_chunks
    /\ ck_pc' = "done"
    /\ UNCHANGED <<ck_data, ck_size, ck_pos, ck_filled, ck_eof, ck_index, ck_total_read,
                   cb_chunks>>
    /\ UNCHANGED ck_others

\* a call of chunk_bytes on the same input
ChunkBytes ==
    /\ cb_chunks = <<>>
    /\ cb_chunks' = chunk_bytes(ck_data, ck_size)
    /\ UNCHANGED <<ck_data, ck_size, ck_pc, ck_pos, ck_filled, ck_eof, ck_chunks, ck_index,
                   ck_total_read>>
    /\ UNCHANGED ck_others

ChunkerNext == CfRead \/ CfReadErr \/ CfPush \/ CfReturn \/ ChunkBytes

SpecChunker == ChunkerInit /\ [][ChunkerNext]_vars


----------------------------------------------------------------------------
(* config/mod.rs *)

\* "YTS3"
MAGIC == 1498698547
PACKET_VERSION == 2
FILE_ID_SIZE == 16
PACKET_HEADER_SIZE == 50
FLAG_REPAIR_SYMBOL == 1
FLAG_LAST_CHUNK == 2
FLAG_ENCRYPTED == 4

----------------------------------------------------------------------------
(* integrity/mod.rs: CRC-32/MPEG-2 (poly 0x04C11DB7, init 0xFFFFFFFF, not
   reflected, no final xor).  A CRC register is kept as its four bytes, most
   significant first: a u32 does not fit the model checker's integers. *)

CRC_POLY == <<4, 193, 29, 183>>
CRC_INIT == <<255, 255, 255, 255>>

\* the register shifted left by one bit, the polynomial folded in on carry
CrcShift(r) ==
    LET sh == << ((r[1] * 2) % 256) + (r[2] \div 128),
                 ((r[2] * 2) % 256) + (r[3] \div 128),
                 ((r[3] * 2) % 256) + (r[4] \div 128),
                 (r[4] * 2) % 256 >>
    IN  IF r[1] >= 128 THEN [i \in 1..4 |-> Xor(sh[i], CRC_POLY[i])] ELSE sh

\* the crc crate's lookup table: entry i is i << 24 after eight shifts
CrcTable ==
    [i \in 0..255 |->
        CrcShift(CrcShift(CrcShift(CrcShift(CrcShift(CrcShift(CrcShift(CrcShift(
            <<i, 0, 0, 0>>))))))))]

\* Digest::update for one byte
CrcByte(r, b) ==
    LET t == CrcTable[Xor(r[1], b)]
    IN  <<Xor(r[2], t[1]), Xor(r[3], t[2]), Xor(r[4], t[3]), t[4]>>

RECURSIVE CrcUpdate(_, _, _, _)
\* Digest::update over bytes lo..hi of s, in order (the first half's register is
\* evaluated before the second half starts, which keeps the evaluation shallow)
CrcUpdate(r, s, lo, hi) ==
    IF lo > hi THEN r
    ELSE IF lo = hi THEN CrcByte(r, s[lo])
    ELSE LET mid == (lo + hi) \div 2
             left == CrcUpdate(r, s, lo, mid)
         IN  IF Len(left) = 4 THEN CrcUpdate(left, s, mid + 1, hi) ELSE left

\* crc32_mpeg2
crc32_mpeg2(data) == CrcUpdate(CRC_INIT, data, 1, Len(data))

\* packet_crc32 that leaves the payload out of the digest
packet_crc32_HeaderOnly(header, crc_field_offset, payload) ==
    LET d1 == CrcUpdate(CRC_INIT, header, 1, crc_field_offset)
        d2 == CrcUpdate(d1, Zeros(4), 1, 4)
    IN  IF crc_field_offset + 4 < Len(header)
        THEN CrcUpdate(d2, header, crc_field_offset + 5, Len(header))
        ELSE d2

\* packet_crc32: the header with its CRC field fed as zeroes, then the payload
packet_crc32(header, crc_field_offset, payload) ==
    LET d1 == CrcUpdate(CRC_INIT, header, 1, crc_field_offset)
        d2 == CrcUpdate(d1, Zeros(4), 1, 4)
        d3 == IF crc_field_offset + 4 < Len(header)
              THEN CrcUpdate(d2, header, crc_field_offset + 5, Len(header))
              ELSE d2
    IN  CrcUpdate(d3, payload, 1, Len(payload))

\* a CRC register as the four bytes LittleEndian::write_u32 writes
CrcLE(r) == <<r[4], r[3], r[2], r[1]>>

----------------------------------------------------------------------------
(* packet/mod.rs *)

OFF_MAGIC == 0
OFF_VERSION == 4
OFF_FLAGS == 5
OFF_FILE_ID == 6
OFF_CHUNK_INDEX == 22
OFF_CHUNK_SIZE == 26
OFF_ORIGINAL_SIZE == 30
OFF_SYMBOL_SIZE == 34
OFF_K == 36
OFF_ESI == 40
OFF_PAYLOAD_LEN == 44
OFF_CRC == 46

\* payload.len() as u16
AsU16(n) == n % 65536

\* the header serialize_packet builds before the CRC is written
HeaderBytes(file_id, chunk_index, chunk_size, original_size, symbol_size, k, esi, flags, payload) ==
    write_u32(MAGIC) \o <<PACKET_VERSION>> \o <<flags>> \o file_id
    \o write_u32(chunk_index) \o write_u32(chunk_size) \o write_u32(original_size)
    \o write_u16(symbol_size) \o write_u32(k) \o write_u32(esi)
    \o write_u16(AsU16(Len(payload))) \o Zeros(4)

\* serialize_packet writing chunk_size and original_size in each other's place
serialize_packet_SwapSizes(file_id, chunk_index, chunk_size, original_size, symbol_size, k, esi, flags, payload) ==
    LET header == HeaderBytes(file_id, chunk_index, original_size, chunk_size,
                              symbol_size, k, esi, flags, payload)
        crc == packet_crc32(header, OFF_CRC, payload)
    IN  Slice(header, 0, OFF_CRC) \o CrcLE(crc) \o payload

\* serialize_packet
serialize_packet(file_id, chunk_index, chunk_size, original_size, symbol_size, k, esi, flags, payload) ==
    LET header == HeaderBytes(file_id, chunk_index, chunk_size, original_size,
                              symbol_size, k, esi, flags, payload)
        crc == packet_crc32(header, OFF_CRC, payload)
    IN  Slice(header, 0, OFF_CRC) \o CrcLE(crc) \o payload

\* Err(PacketError::...)
PacketErr(e) == [ok |-> FALSE, err |-> e]

\* deserialize_packet: Ok((Packet, consumed)) or Err
deserialize_packet(data) ==
    IF Len(data) < PACKET_HEADER_SIZE THEN PacketErr("BufferTooShort")
    ELSE
    LET header_bytes == Slice(data, 0, PACKET_HEADER_SIZE)
        magic == read_u32(header_bytes, OFF_MAGIC)
        version == header_bytes[OFF_VERSION + 1]
    IN
    IF magic # MAGIC THEN PacketErr("InvalidMagic")
    ELSE IF version # PACKET_VERSION THEN PacketErr("UnsupportedVersion")
    ELSE
    LET payload_length == read_u16(header_bytes, OFF_PAYLOAD_LEN)
        crc == Slice(header_bytes, OFF_CRC, OFF_CRC + 4)
        total_len == PACKET_HEADER_SIZE + payload_length
    IN
    IF Len(data) < total_len THEN PacketErr("BufferTooShort")
    ELSE
    LET payload == Slice(data, PACKET_HEADER_SIZE, total_len)
        computed_crc == CrcLE(packet_crc32(header_bytes, OFF_CRC, payload))
    IN
    IF computed_crc # crc THEN PacketErr("CrcMismatch")
    ELSE [ok |-> TRUE,
          packet |-> [header |-> [magic |-> magic,
                                  version |-> version,
                                  flags |-> header_bytes[OFF_FLAGS + 1],
                                  file_id |-> Slice(header_bytes, OFF_FILE_ID, OFF_FILE_ID + FILE_ID_SIZE),
                                  chunk_index |-> read_u32(header_bytes, OFF_CHUNK_INDEX),
                                  chunk_size |-> read_u32(header_bytes, OFF_CHUNK_SIZE),
                                  original_size |-> read_u32(header_bytes, OFF_ORIGINAL_SIZE),
                                  symbol_size |-> read_u16(header_bytes, OFF_SYMBOL_SIZE),
                                  k |-> read_u32(header_bytes, OFF_K),
                                  esi |-> read_u32(header_bytes, OFF_ESI),
                                  payload_length |-> payload_length,
                                  crc |-> crc],
                      payload |-> payload],
          consumed |-> total_len]

\* the number of values of a u16: payload.len() as u16 wraps at it
U16_RANGE == 65536

\* file ids: the one of the tests, and another
FileIds == {[i \in 1..FILE_ID_SIZE |-> i - 1], [i \in 1..FILE_ID_SIZE |-> 255 - 3 * i]}

\* the byte values payloads are made of
PayloadBytes == {0, 187}

\* header field values handed to serialize_packet: zeroes, the values of
\* test_serialize_deserialize_roundtrip, and values that fill the fields' bytes
HeaderChoices ==
    { [flags |-> 0, file_id |-> [i \in 1..FILE_ID_SIZE |-> i - 1], chunk_index |-> 0,
       chunk_size |-> 0, original_size |-> 0, symbol_size |-> 0, k |-> 0, esi |-> 0],
      [flags |-> FLAG_LAST_CHUNK, file_id |-> [i \in 1..FILE_ID_SIZE |-> i - 1],
       chunk_index |-> 3, chunk_size |-> 1024, original_size |-> 900, symbol_size |-> 256,
       k |-> 4, esi |-> 3],
      [flags |-> 7, file_id |-> [i \in 1..FILE_ID_SIZE |-> 255 - 3 * i],
       chunk_index |-> 16909060, chunk_size |-> 84281096, original_size |-> 151653132,
       symbol_size |-> 3597, k |-> 219025168, esi |-> 286397204],
      [flags |-> 255, file_id |-> [i \in 1..FILE_ID_SIZE |-> 255 - 3 * i],
       chunk_index |-> 2147483647, chunk_size |-> 65536, original_size |-> 65516,
       symbol_size |-> 65535, k |-> 2, esi |-> 16777216] }

\* a payload too long for the u16 payload_length field
OversizePayload == [i \in 1..(U16_RANGE + 1) |-> 187]

\* the calls of serialize_packet tried
PacketInputs ==
    { [hdr |-> h, payload |-> p] : h \in HeaderChoices, p \in SeqsUpTo(PayloadBytes, MaxPayloadLen) }
    \cup { [hdr |-> h, payload |-> OversizePayload] :
             h \in {c \in HeaderChoices : c.chunk_index = 3} }

PacketInit ==
    /\ pk_in \in PacketInputs
    /\ pk_wire = <<>>
    /\ pk_tampered = FALSE
    /\ pk_out = {}
    /\ pk_others_idle

\* a call of serialize_packet
PkSerialize ==
    /\ pk_wire = <<>>
    /\ pk_wire' = serialize_packet(pk_in.hdr.file_id, pk_in.hdr.chunk_index,
                                   pk_in.hdr.chunk_size, pk_in.hdr.original_size,
                                   pk_in.hdr.symbol_size, pk_in.hdr.k, pk_in.hdr.esi,
                                   pk_in.hdr.flags, pk_in.payload)
    /\ UNCHANGED <<pk_in, pk_tampered, pk_out>>
    /\ UNCHANGED pk_others

\* test_crc_tamper_detection: one byte of the serialized payload is changed to
\* another value
PkTamper ==
    /\ pk_wire # <<>>
    /\ pk_out = {}
    /\ ~pk_tampered
    /\ Len(pk_in.payload) <= MaxPayloadLen
    /\ \E pos \in 1..Len(pk_in.payload), b \in 0..255 :
          /\ b # pk_wire[PACKET_HEADER_SIZE + pos]
          /\ pk_wire' = [pk_wire EXCEPT ![PACKET_HEADER_SIZE + pos] = b]
    /\ pk_tampered' = TRUE
    /\ UNCHANGED <<pk_in, pk_out>>
    /\ UNCHANGED pk_others

\* a call of deserialize_packet on the bytes
PkDeserialize ==
    /\ pk_wire # <<>>
    /\ pk_out = {}
    /\ pk_out' = {deserialize_packet(pk_wire)}
    /\ UNCHANGED <<pk_in, pk_wire, pk_tampered>>
    /\ UNCHANGED pk_others

PacketNext == PkSerialize \/ PkTamper \/ PkDeserialize

SpecPacket == PacketInit /\ [][PacketNext]_vars

\* find_magic: the 0-based position of the first window of four bytes equal to
\* magic, or -1 for None
find_magic(data, magic) ==
    LET hits == {i \in 0..(Len(data) - 4) :
                    /\ data[i + 1] = magic[1] /\ data[i + 2] = magic[2]
                    /\ data[i + 3] = magic[3] /\ data[i + 4] = magic[4]}
    IN  IF hits = {} THEN -1 ELSE CHOOSE i \in hits : \A j \in hits : i <= j

\* a segment of a scanned stream: garbage, an intact packet, or a corrupted one
Seg(kind, bytes) == [kind |-> kind, bytes |-> bytes]

\* the packets of test_scan_for_packets, with short payloads: esi and payload vary
ScanPacket(esi, payload) ==
    serialize_packet([i \in 1..FILE_ID_SIZE |-> i - 1], 0, 256, 200, 64, 4, esi, 0, payload)

\* the 50 header bytes that, put before the bytes p, make a valid packet with
\* payload p
WrapHeader(p) == Slice(ScanPacket(9, p), 0, PACKET_HEADER_SIZE)

\* the payloads of the packets put in scanned streams: short ones, the magic
\* bytes, and a whole serialized packet
ScanPayloads == {<<1>>, <<>>, write_u32(MAGIC), ScanPacket(7, <<7>>)}

\* the first and the second packet of a stream
ScanPacketPairs ==
    { <<ScanPacket(0, p), ScanPacket(1, q)>> : p \in ScanPayloads, q \in {<<2, 2>>, <<>>} }

\* filler bytes
Filler == { [i \in 1..n |-> 255] : n \in 0..MaxGarbageLen }

\* garbage before the first packet p: filler, and bytes that hold the magic
\* value (cut short, alone, followed by the version byte, and as the header of
\* a packet around p)
GarbageBefore(p) ==
    Filler \cup { Zeros(5), <<51>>, <<51, 83, 84>>, write_u32(MAGIC),
                  write_u32(MAGIC) \o <<PACKET_VERSION>>, WrapHeader(p) }

\* garbage between the packets, q the second one
GarbageBetween(q) == { <<>>, Zeros(5), write_u32(MAGIC), WrapHeader(q) }

\* garbage after the second packet
GarbageAfter == Filler \cup { write_u32(MAGIC) \o <<PACKET_VERSION>> }

\* test_scan_for_packets: garbage, a packet, garbage, a packet, garbage
GarbageStreams ==
    UNION { { << Seg("garbage", g0), Seg("packet", pp[1]), Seg("garbage", g1),
                 Seg("packet", pp[2]), Seg("garbage", g2) >> :
                g0 \in GarbageBefore(pp[1]), g1 \in GarbageBetween(pp[2]), g2 \in GarbageAfter } :
            pp \in ScanPacketPairs }

\* a serialized packet p damaged so that it does not parse: a payload byte or
\* a CRC byte changed, another version, another payload length, the last byte
\* cut off
Corrupt(p, how) ==
    CASE how = "crc" -> [p EXCEPT ![Len(p)] = (p[Len(p)] + 1) % 256]
      [] how = "version" -> [p EXCEPT ![OFF_VERSION + 1] = 1]
      [] how = "length" -> [p EXCEPT ![OFF_PAYLOAD_LEN + 1] = (p[OFF_PAYLOAD_LEN + 1] + 1) % 256]
      [] how = "cut" -> SubSeq(p, 1, Len(p) - 1)

CorruptionKinds == {"crc", "version", "length", "cut"}

\* a packet, intact or damaged
PacketOrCorrupt(p) ==
    {Seg("packet", p)} \cup {Seg("corrupt", Corrupt(p, how)) : how \in CorruptionKinds}

\* three concatenated packets, any of them damaged
CorruptStreams ==
    { <<s1, s2, s3>> :
        s1 \in UNION {PacketOrCorrupt(ScanPacket(0, p)) : p \in ScanPayloads},
        s2 \in PacketOrCorrupt(ScanPacket(1, <<2, 2>>)),
        s3 \in PacketOrCorrupt(ScanPacket(2, <<>>)) }

\* the bytes of a stream of segments
StreamBytes(segs) == Concat([i \in 1..Len(segs) |-> segs[i].bytes])

ScanInit ==
    /\ sc_segs \in GarbageStreams \cup CorruptStreams
    /\ sc_data = StreamBytes(sc_segs)
    /\ sc_offset = 0
    /\ sc_packets = <<>>
    /\ sc_starts = <<>>
    /\ sc_iter = 0
    /\ sc_pc = "loop"
    /\ sc_others_idle

\* scan_for_packets, one iteration of the loop that stops at the first magic
\* match that does not parse
ScStep_BreakOnError ==
    /\ sc_pc = "loop"
    /\ IF sc_offset + PACKET_HEADER_SIZE <= Len(sc_data)
       THEN LET pos == find_magic(Slice(sc_data, sc_offset, Len(sc_data)), write_u32(MAGIC))
                abs_pos == sc_offset + pos
                r == deserialize_packet(Slice(sc_data, abs_pos, Len(sc_data)))
            IN  IF pos # -1
                THEN IF r.ok
                     THEN /\ sc_packets' = Append(sc_packets, r.packet)
                          /\ sc_starts' = Append(sc_starts, abs_pos)
                          /\ sc_offset' = abs_pos + r.consumed
                          /\ UNCHANGED sc_pc
                     ELSE /\ sc_pc' = "done"
                          /\ UNCHANGED <<sc_packets, sc_starts, sc_offset>>
                ELSE /\ sc_pc' = "done"
                     /\ UNCHANGED <<sc_packets, sc_starts, sc_offset>>
       ELSE /\ sc_pc' = "done"
            /\ UNCHANGED <<sc_packets, sc_starts, sc_offset>>
    /\ sc_iter' = IF sc_offset + PACKET_HEADER_SIZE <= Len(sc_data) THEN sc_iter + 1 ELSE sc_iter
    /\ UNCHANGED <<sc_segs, sc_data>>
    /\ UNCHANGED sc_others

\* scan_for_packets, one iteration of the loop that skips a whole header after
\* a magic match that does not parse
ScStep_SkipHeader ==
    /\ sc_pc = "loop"
    /\ IF sc_offset + PACKET_HEADER_SIZE <= Len(sc_data)
       THEN LET pos == find_magic(Slice(sc_data, sc_offset, Len(sc_data)), write_u32(MAGIC))
                abs_pos == sc_offset + pos
                r == deserialize_packet(Slice(sc_data, abs_pos, Len(sc_data)))
            IN  IF pos # -1
                THEN IF r.ok
                     THEN /\ sc_packets' = Append(sc_packets, r.packet)
                          /\ sc_starts' = Append(sc_starts, abs_pos)
                          /\ sc_offset' = abs_pos + r.consumed
                          /\ UNCHANGED sc_pc
                     ELSE /\ sc_offset' = abs_pos + PACKET_HEADER_SIZE
                          /\ UNCHANGED <<sc_packets, sc_starts, sc_pc>>
                ELSE /\ sc_pc' = "done"
                     /\ UNCHANGED <<sc_packets, sc_starts, sc_offset>>
       ELSE /\ sc_pc' = "done"
            /\ UNCHANGED <<sc_packets, sc_starts, sc_offset>>
    /\ sc_iter' = IF sc_offset + PACKET_HEADER_SIZE <= Len(sc_data) THEN sc_iter + 1 ELSE sc_iter
    /\ UNCHANGED <<sc_segs, sc_data>>
    /\ UNCHANGED sc_others

\* scan_for_packets, one iteration of a loop that looks again at a magic value
\* that did not parse
ScStep_Stall ==
    /\ sc_pc = "loop"
    /\ IF sc_offset + PACKET_HEADER_SIZE <= Len(sc_data)
       THEN LET pos == find_magic(Slice(sc_data, sc_offset, Len(sc_data)), write_u32(MAGIC))
                abs_pos == sc_offset + pos
                r == deserialize_packet(Slice(sc_data, abs_pos, Len(sc_data)))
            IN  IF pos # -1
                THEN IF r.ok
                     THEN /\ sc_packets' = Append(sc_packets, r.packet)
                          /\ sc_starts' = Append(sc_starts, abs_pos)
                          /\ sc_offset' = abs_pos + r.consumed
                          /\ UNCHANGED sc_pc
                     ELSE /\ sc_offset' = abs_pos
                          /\ UNCHANGED <<sc_packets, sc_starts, sc_pc>>
                ELSE /\ sc_pc' = "done"
                     /\ UNCHANGED <<sc_packets, sc_starts, sc_offset>>
       ELSE /\ sc_pc' = "done"
            /\ UNCHANGED <<sc_packets, sc_starts, sc_offset>>
    /\ sc_iter' = IF sc_offset + PACKET_HEADER_SIZE <= Len(sc_data) THEN sc_iter + 1 ELSE sc_iter
    /\ UNCHANGED <<sc_segs, sc_data>>
    /\ UNCHANGED sc_others

\* scan_for_packets, one iteration of the loop (or its exit)
ScStep ==
    /\ sc_pc = "loop"
    /\ IF sc_offset + PACKET_HEADER_SIZE <= Len(sc_data)
       THEN LET pos == find_magic(Slice(sc_data, sc_offset, Len(sc_data)), write_u32(MAGIC))
                abs_pos == sc_offset + pos
                r == deserialize_packet(Slice(sc_data, abs_pos, Len(sc_data)))
            IN  IF pos # -1
                THEN IF r.ok
                     THEN /\ sc_packets' = Append(sc_packets, r.packet)
                          /\ sc_starts' = Append(sc_starts, abs_pos)
                          /\ sc_offset' = abs_pos + r.consumed
                          /\ UNCHANGED sc_pc
                     ELSE /\ sc_offset' = abs_pos + 1
                          /\ UNCHANGED <<sc_packets, sc_starts, sc_pc>>
                ELSE /\ sc_pc' = "done"
                     /\ UNCHANGED <<sc_packets, sc_starts, sc_offset>>
       ELSE /\ sc_pc' = "done"
            /\ UNCHANGED <<sc_packets, sc_starts, sc_offset>>
    /\ sc_iter' = IF sc_offset + PACKET_HEADER_SIZE <= Len(sc_data) THEN sc_iter + 1 ELSE sc_iter
    /\ UNCHANGED <<sc_segs, sc_data>>
    /\ UNCHANGED sc_others

ScanNext == ScStep

SpecScan == ScanInit /\ [][ScanNext]_vars

----------------------------------------------------------------------------
(* Crypto: crypto/mod.rs *)

AEAD_TAG_SIZE == 16
ENCRYPTED_HEADER_SIZE == 4
ENCRYPTION_OVERHEAD == AEAD_TAG_SIZE + ENCRYPTED_HEADER_SIZE
NONCE_SIZE == 24
ARGON2_OUTPUT_LEN == 32

\* The primitives of the argon2 and chacha20poly1305 crates are keyed
\* pseudo-random functions. The model computes n bytes from a label and a
\* message with the CRC register as the mixing function: word w of the output
\* is the digest of label, w and the message.
Prf(label, msg, n) ==
    LET words == [w \in 0..((n + 3) \div 4) |-> crc32_mpeg2(<<label, w>> \o msg)]
    IN  [i \in 1..n |-> words[(i - 1) \div 4][((i - 1) % 4) + 1]]

\* Argon2::hash_password_into(password, salt, &mut key)
hash_password_into(password, salt) == Prf(1, <<Len(password)>> \o password \o salt, ARGON2_OUTPUT_LEN)

\* derive_key: 32 bytes from the password, salted with the file id
derive_key(password, file_id) == hash_password_into(password, file_id)

\* the Poly1305 tag of the cipher: 16 bytes over key, nonce and ciphertext
AeadTag(key, nonce, ct) == Prf(3, key \o nonce \o ct, AEAD_TAG_SIZE)

\* XChaCha20Poly1305::encrypt: the plaintext under the key stream, then the tag
aead_encrypt(key, nonce, plaintext) ==
    LET stream == Prf(2, key \o nonce, Len(plaintext))
        ct == [i \in 1..Len(plaintext) |-> Xor(plaintext[i], stream[i])]
    IN  ct \o AeadTag(key, nonce, ct)

\* XChaCha20Poly1305::decrypt: an error for a buffer shorter than the tag or a
\* tag that does not verify, the plaintext otherwise
aead_decrypt(key, nonce, buffer) ==
    IF Len(buffer) < AEAD_TAG_SIZE
    THEN [ok |-> FALSE]
    ELSE LET n == Len(buffer) - AEAD_TAG_SIZE
             ct == SubSeq(buffer, 1, n)
             tag == SubSeq(buffer, n + 1, Len(buffer))
             stream == Prf(2, key \o nonce, n)
         IN  IF tag = AeadTag(key, nonce, ct)
             THEN [ok |-> TRUE, data |-> [i \in 1..n |-> Xor(ct[i], stream[i])]]
             ELSE [ok |-> FALSE]

\* build_nonce that leaves the chunk index out
build_nonce_NoIndex(file_id, chunk_index) ==
    file_id \o Zeros(NONCE_SIZE - FILE_ID_SIZE)

\* build_nonce: file_id, then chunk_index little-endian, the rest zero
build_nonce(file_id, chunk_index) ==
    file_id \o write_u32(chunk_index) \o Zeros(NONCE_SIZE - FILE_ID_SIZE - 4)

CryptoErr(e) == [ok |-> FALSE, err |-> e]

\* encrypt_chunk that leaves the length prefix out
encrypt_chunk_NoPrefix(key, file_id, chunk_index, plaintext) ==
    [ok |-> TRUE, data |-> aead_encrypt(key, build_nonce(file_id, chunk_index), plaintext)]

\* encrypt_chunk: the plaintext length (4 bytes, little-endian), then the
\* ciphertext and tag
encrypt_chunk(key, file_id, chunk_index, plaintext) ==
    LET nonce_bytes == build_nonce(file_id, chunk_index)
        ciphertext == aead_encrypt(key, nonce_bytes, plaintext)
    IN  [ok |-> TRUE, data |-> write_u32(Len(plaintext)) \o ciphertext]

\* decrypt_chunk: the length prefix is read and not used
decrypt_chunk(key, file_id, chunk_index, encrypted) ==
    IF Len(encrypted) < ENCRYPTED_HEADER_SIZE
    THEN CryptoErr("Decryption")
    ELSE LET ciphertext == Slice(encrypted, 4, Len(encrypted))
             nonce_bytes == build_nonce(file_id, chunk_index)
             r == aead_decrypt(key, nonce_bytes, ciphertext)
         IN  IF r.ok THEN [ok |-> TRUE, data |-> r.data] ELSE CryptoErr("Decryption")

\* the longest plaintext handed to encrypt_chunk
MaxPlainLen == 2

\* passwords: "c" and "w" (test_wrong_key_fails has a correct and a wrong one)
Passwords == {<<99>>, <<119>>}

\* keys: derived from the passwords as in the tests
Keys == {derive_key(pw, [i \in 1..FILE_ID_SIZE |-> i - 1]) : pw \in Passwords}

\* chunk indices: the first two, and one that differs from the first in a higher byte
ChunkIndices == {0, 1, 256}

CryptoInputs ==
    [key : Keys, file_id : FileIds, chunk_index : ChunkIndices,
     plaintext : SeqsUpTo(PayloadBytes, MaxPlainLen)]

CryptoInit ==
    /\ cr_in \in CryptoInputs
    /\ cr_sealed = <<>>
    /\ cr_cut = FALSE
    /\ cr_call = {}
    /\ cr_out = {}
    /\ cr_others_idle

\* a call of encrypt_chunk
CrEncrypt ==
    /\ cr_sealed = <<>>
    /\ cr_call = {}
    /\ ~cr_cut
    /\ cr_sealed' = encrypt_chunk(cr_in.key, cr_in.file_id, cr_in.chunk_index, cr_in.plaintext).data
    /\ UNCHANGED <<cr_in, cr_cut, cr_call, cr_out>>
    /\ UNCHANGED cr_others

\* the sealed bytes lose their end
CrTruncate ==
    /\ cr_sealed # <<>>
    /\ cr_call = {}
    /\ ~cr_cut
    /\ \E n \in 0..(Len(cr_sealed) - 1) : cr_sealed' = SubSeq(cr_sealed, 1, n)
    /\ cr_cut' = TRUE
    /\ UNCHANGED <<cr_in, cr_call, cr_out>>
    /\ UNCHANGED cr_others

\* a call of decrypt_chunk on the bytes, with any key, file id and chunk index
CrDecrypt ==
    /\ cr_sealed # <<>> \/ cr_cut
    /\ cr_call = {}
    /\ \E key \in Keys, file_id \in FileIds, chunk_index \in ChunkIndices :
          /\ cr_call' = {[key |-> key, file_id |-> file_id, chunk_index |-> chunk_index]}
          /\ cr_out' = {decrypt_chunk(key, file_id, chunk_index, cr_sealed)}
    /\ UNCHANGED <<cr_in, cr_sealed, cr_cut>>
    /\ UNCHANGED cr_others

CryptoNext == CrEncrypt \/ CrTruncate \/ CrDecrypt

SpecCrypto == CryptoInit /\ [][CryptoNext]_vars

----------------------------------------------------------------------------
(* Fountain: the contract of the fountain module (encode_chunk, ChunkDecoder) *)

\* a variant of CeilDiv that rounds down
CeilDiv_Floor(a, b) == a \div b

CeilDiv(a, b) == (a + b - 1) \div b

\* the exclusive or of two symbols
XorSeq(a, b) == [i \in 1..Len(a) |-> Xor(a[i], b[i])]

Symbol(esi, data, is_repair) == [esi |-> esi, data |-> data, is_repair |-> is_repair]

\* the source positions a repair symbol combines: a subset of 0..k-1 fixed by
\* the esi, the same for the encoder and the decoder
RepairSet(esi, k) ==
    {j \in 0..(k - 1) : j = esi % k \/ ((esi * 5 + j * 3) % 4) = 0}

RECURSIVE XorAll(_, _, _)
\* the exclusive or of the source symbols at the positions of set
XorAll(source, set, acc) ==
    IF set = {} THEN acc
    ELSE LET j == CHOOSE x \in set : \A y \in set : x <= y
         IN  XorAll(source, set \ {j}, XorSeq(acc, source[j + 1]))

\* encode_chunk: k = ceil(L / s) source symbols of the zero-padded payload,
\* then ceil(k * repair_overhead) repair symbols; the overhead is a fraction
encode_chunk(data, symbol_size, repair_overhead) ==
    LET k == CeilDiv(Len(data), symbol_size)
        padded == data \o Zeros(k * symbol_size - Len(data))
        source == [i \in 1..k |-> Slice(padded, (i - 1) * symbol_size, i * symbol_size)]
        num_repair == CeilDiv(k * repair_overhead.num, repair_overhead.den)
    IN  [i \in 1..k |-> Symbol(i - 1, source[i], FALSE)]
        \o [j \in 1..num_repair |->
               Symbol(k + j - 1, XorAll(source, RepairSet(k + j - 1, k), Zeros(symbol_size)), TRUE)]

\* ChunkDecoder::add_symbol: a received symbol as a row of the incidence matrix
SymbolRow(esi, data, is_repair, k) ==
    [mask |-> IF is_repair THEN RepairSet(esi, k) ELSE {esi} \cap (0..(k - 1)), data |-> data]

RECURSIVE Eliminate(_, _, _, _)
\* Gaussian elimination over GF(2), column by column: solved holds the pivot
\* rows of the columns done, rest the rows not used yet
Eliminate(solved, rest, col, k) ==
    IF col = k THEN [ok |-> TRUE, solved |-> solved]
    ELSE LET cand == {i \in 1..Len(rest) : col \in rest[i].mask}
         IN  IF cand = {} THEN [ok |-> FALSE]
             ELSE LET p == CHOOSE i \in cand : \A j \in cand : i <= j
                      piv == rest[p]
                      red(r) == IF col \in r.mask
                                THEN [mask |-> (r.mask \ piv.mask) \cup (piv.mask \ r.mask),
                                      data |-> XorSeq(r.data, piv.data)]
                                ELSE r
                      rest2 == [i \in 1..(Len(rest) - 1) |-> red(rest[IF i < p THEN i ELSE i + 1])]
                      solved2 == [i \in 1..Len(solved) |-> red(solved[i])] \o <<piv>>
                  IN  Eliminate(solved2, rest2, col + 1, k)

\* ChunkDecoder::recover: the k source symbols, joined and cut to chunk_size;
\* an error when the symbols received do not determine them
recover(rows, k, chunk_size) ==
    LET e == Eliminate(<<>>, rows, 0, k)
    IN  IF e.ok
        THEN LET joined == Concat([i \in 1..k |-> e.solved[i].data])
             IN  [ok |-> TRUE, data |-> SubSeq(joined, 1, Min(chunk_size, Len(joined)))]
        ELSE [ok |-> FALSE, err |-> "rank deficient"]

\* the rows a ChunkDecoder holds after add_symbol was called with each of syms
DecoderRows(syms, k) ==
    [i \in 1..Len(syms) |-> SymbolRow(syms[i].esi, syms[i].data, syms[i].is_repair, k)]

\* the longest chunk payload handed to encode_chunk
MaxSealedLen == 3
\* the largest number of add_symbol calls on one ChunkDecoder
MaxAdded == 4

\* chunk payloads: one of distinct bytes of every length, and one of equal bytes
FountainPayloads ==
    {[i \in 1..n |-> (i * 37) % 256] : n \in 0..MaxSealedLen} \cup {<<171, 171>>}

FountainInputs ==
    { [data |-> d, symbol_size |-> c.symbol_size, repair_overhead |-> c.repair_overhead] :
        d \in FountainPayloads,
        c \in { [symbol_size |-> 1, repair_overhead |-> [num |-> 1, den |-> 2]],
                [symbol_size |-> 2, repair_overhead |-> [num |-> 1, den |-> 1]] } }

FountainInit ==
    /\ fn_in \in FountainInputs
    /\ fn_symbols = <<>> /\ fn_k = 0 /\ fn_rows = <<>>
    /\ fn_pc = "start" /\ fn_out = {}
    /\ fn_others_idle

\* the encoder's worker: encode_chunk, and the k published in the packet headers
FnEncode ==
    /\ fn_pc = "start"
    /\ fn_symbols' = encode_chunk(fn_in.data, fn_in.symbol_size, fn_in.repair_overhead)
    /\ fn_k' = CeilDiv(Len(fn_in.data), fn_in.symbol_size)
    /\ fn_pc' = "collecting"
    /\ UNCHANGED <<fn_in, fn_rows, fn_out, fn_others>>

\* the decoder's loop: add_symbol with any symbol that reached it, in any
\* order, a symbol possibly more than once
FnAdd ==
    /\ fn_pc = "collecting"
    /\ Len(fn_rows) < MaxAdded
    /\ \E i \in 1..Len(fn_symbols) : fn_rows' = Append(fn_rows, fn_symbols[i])
    /\ UNCHANGED <<fn_in, fn_symbols, fn_k, fn_pc, fn_out, fn_others>>

\* a variant of the recover step that hands over the first k symbols added only
FnRecover_FirstK ==
    /\ fn_pc = "collecting"
    /\ LET r == recover(DecoderRows(SubSeq(fn_rows, 1, Min(fn_k, Len(fn_rows))), fn_k),
                        fn_k, Len(fn_in.data))
       IN  /\ fn_out' = {r}
           /\ fn_pc' = IF r.ok THEN "recovered" ELSE "failed"
    /\ UNCHANGED <<fn_in, fn_symbols, fn_k, fn_rows, fn_others>>

\* recover(chunk_size), once all symbols were added
FnRecover ==
    /\ fn_pc = "collecting"
    /\ LET r == recover(DecoderRows(fn_rows, fn_k), fn_k, Len(fn_in.data))
       IN  /\ fn_out' = {r}
           /\ fn_pc' = IF r.ok THEN "recovered" ELSE "failed"
    /\ UNCHANGED <<fn_in, fn_symbols, fn_k, fn_rows, fn_others>>

FountainNext == FnEncode \/ FnAdd \/ FnRecover

SpecFountain == FountainInit /\ [][FountainNext]_vars

----------------------------------------------------------------------------
(* DCT tables in numbers: video/dct.rs                                     *)
(*                                                                         *)
(* Reals are fixed-point integers: cosines and 1/sqrt(2) in hundredths.    *)
(* A coefficient strength is num * 2^-shift. Of f64 the model keeps what   *)
(* decides a pixel: 128.0 - t is 128.0 again when t is at most 2^-47,      *)
(* half the distance from 128.0 to the next f64 below it.                  *)

\* config::EMBED_POSITIONS
EMBED_POSITIONS == <<<<0, 1>>, <<1, 0>>, <<1, 1>>, <<0, 2>>>>

\* 100 * cos((2x+1) * u * PI / 16) for the frequencies used
Cos100(u, x) ==
    CASE u = 0 -> 100
      [] u = 1 -> <<98, 83, 56, 20, -20, -56, -83, -98>>[x + 1]
      [] u = 2 -> <<92, 38, -38, -92, -92, -38, 38, 92>>[x + 1]

\* 100 * cu: 1/sqrt(2) for frequency 0, else 1
C100(u) == IF u = 0 THEN 71 ELSE 100

\* the unit of dct_basis: a basis value b is the integer 40000 * b
BASIS_SCALE == 40000

\* dct_basis(u, v): 0.25 * cu * cv * cos_x * cos_y, flattened row by row
dct_basis(u, v) ==
    [i \in 1..64 |->
        LET x == (i - 1) % 8
            y == (i - 1) \div 8
        IN  (C100(u) * C100(v) * Cos100(u, x) * Cos100(v, y)) \div 10000]

\* the sum of the basis functions at the embed positions: embed_pattern, and
\* the projection before it is normalized
embed_pattern ==
    [i \in 1..64 |->
        dct_basis(EMBED_POSITIONS[1][1], EMBED_POSITIONS[1][2])[i]
        + dct_basis(EMBED_POSITIONS[2][1], EMBED_POSITIONS[2][2])[i]
        + dct_basis(EMBED_POSITIONS[3][1], EMBED_POSITIONS[3][2])[i]
        + dct_basis(EMBED_POSITIONS[4][1], EMBED_POSITIONS[4][2])[i]]

Abs(n) == IF n < 0 THEN 0 - n ELSE n

RECURSIVE TwoTo(_)
TwoTo(n) == IF n = 0 THEN 1 ELSE 2 * TwoTo(n - 1)

\* the largest shift at which BASIS_SCALE * 2^shift is an i32
SHIFT_LIMIT == 15

\* the shift of the half step below 128.0 in f64: 2^-47
F64_HALF_STEP_BELOW_128 == 47

\* t = strength * |pattern| is at most 2^-47, so that 128.0 - t is 128.0
Absorbed(strength, pat) ==
    LET d == strength.shift - F64_HALF_STEP_BELOW_128
    IN  IF d >= 0
        THEN d > SHIFT_LIMIT \/ strength.num * Abs(pat) <= BASIS_SCALE * TwoTo(d)
        ELSE 0 - d <= SHIFT_LIMIT /\ strength.num * Abs(pat) <= BASIS_SCALE \div TwoTo(0 - d)

\* the least integer not below t = strength * |pattern|, for pattern # 0
CeilOf(strength, pat) ==
    IF strength.shift > SHIFT_LIMIT THEN 1
    ELSE CeilDiv(strength.num * Abs(pat), BASIS_SCALE * TwoTo(strength.shift))

\* the greatest integer not above t = strength * |pattern|
FloorOf(strength, pat) ==
    IF strength.shift > SHIFT_LIMIT THEN 0
    ELSE (strength.num * Abs(pat)) \div (BASIS_SCALE * TwoTo(strength.shift))

\* (128.0 + sign * strength * pattern).clamp(0.0, 255.0) as u8: the cast
\* drops the fraction
Pixel(strength, pat, sign) ==
    IF pat = 0 THEN 128
    ELSE IF (sign = 1) = (pat > 0)
    THEN Min(255, 128 + FloorOf(strength, pat))
    ELSE IF Absorbed(strength, pat) THEN 128
    ELSE Max(0, 128 - CeilOf(strength, pat))

\* a variant of DctTables_new with the two patterns exchanged
DctTables_new_Swapped(coefficient_strength) ==
    [embed_blocks |-> <<[i \in 1..64 |-> Pixel(coefficient_strength, embed_pattern[i], 1)],
                        [i \in 1..64 |-> Pixel(coefficient_strength, embed_pattern[i], -1)]>>,
     projection |-> embed_pattern]

\* DctTables::new: the patterns of bit 0 and bit 1 (a sequence: pattern b is
\* at b + 1) and the projection, here not normalized: a positive factor that
\* does not change the sign extract_bit looks at
DctTables_new(coefficient_strength) ==
    [embed_blocks |-> <<[i \in 1..64 |-> Pixel(coefficient_strength, embed_pattern[i], -1)],
                        [i \in 1..64 |-> Pixel(coefficient_strength, embed_pattern[i], 1)]>>,
     projection |-> embed_pattern]

RECURSIVE DotRange(_, _, _, _)
\* the sum of (pixel - 128) * proj over the positions from..to
DotRange(block, projection, from, to) ==
    IF from > to THEN 0
    ELSE IF from = to THEN (block[from] - 128) * projection[from]
    ELSE LET mid == (from + to) \div 2
         IN  DotRange(block, projection, from, mid) + DotRange(block, projection, mid + 1, to)

\* DctTables::extract_bit
DctTables_extract_bit(tables, block) ==
    IF DotRange(block, tables.projection, 1, 64) > 0 THEN 1 ELSE 0

\* the neutral block of a frame's background
NeutralBlock == [i \in 1..64 |-> 128]

\* the largest shift of the strengths tried
MaxShift == 60

\* the coefficient strengths tried: num * 2^-shift, the default 150 among them
Strengths == [num : {1, 3, 150, 600}, shift : 0..MaxShift]

DEFAULT_COEFFICIENT_STRENGTH == [num |-> 150, shift |-> 0]

DctInit ==
    /\ dc_strength \in Strengths
    /\ dc_tables = <<>> /\ dc_block = <<>> /\ dc_bit = {} /\ dc_pc = "start"
    /\ dc_others_idle

\* DctTables::new(coefficient_strength)
DctNew ==
    /\ dc_pc = "start"
    /\ dc_tables' = <<DctTables_new(dc_strength)>>
    /\ dc_pc' = "built"
    /\ UNCHANGED <<dc_strength, dc_block, dc_bit, dc_others>>

\* extract_bit of one of the two patterns or of the neutral block
DctExtract ==
    /\ dc_pc = "built"
    /\ \E which \in {"B0", "B1", "neutral"} :
          LET block == CASE which = "B0" -> dc_tables[1].embed_blocks[1]
                         [] which = "B1" -> dc_tables[1].embed_blocks[2]
                         [] OTHER -> NeutralBlock
          IN  /\ dc_block' = <<which, block>>
              /\ dc_bit' = {DctTables_extract_bit(dc_tables[1], block)}
    /\ dc_pc' = "extracted"
    /\ UNCHANGED <<dc_strength, dc_tables, dc_others>>

DctNext == DctNew \/ DctExtract

SpecDct == DctInit /\ [][DctNext]_vars

----------------------------------------------------------------------------
(* Video: config/mod.rs, video/dct.rs, video/encoder.rs, video/decoder.rs *)

BLOCK_SIZE == 8

blocks_per_frame(width, height) == (width \div BLOCK_SIZE) * (height \div BLOCK_SIZE)

bytes_per_frame(width, height, bits_per_block) ==
    (blocks_per_frame(width, height) * bits_per_block) \div 8

\* the 8x8 regions of a frame: pattern B0, pattern B1, or the mid-gray background
BlockB0 == "B0"
BlockB1 == "B1"
BlockGray == "gray"

\* DctTables::embed_blocks
embed_blocks(bit) == IF bit = 1 THEN BlockB1 ELSE BlockB0

\* DctTables::extract_bit: 1 when the projection is positive; it is negative
\* for B0 and zero for the background
extract_bit(block) == IF block = BlockB1 THEN 1 ELSE 0

Pow2(n) == IF n = 0 THEN 1 ELSE IF n = 1 THEN 2 ELSE IF n = 2 THEN 4 ELSE IF n = 3 THEN 8
           ELSE IF n = 4 THEN 16 ELSE IF n = 5 THEN 32 ELSE IF n = 6 THEN 64 ELSE 128

\* render_frame: one block per data bit, most significant bit first, in
\* row-major order; the blocks left over stay gray
render_frame(data, cfg) ==
    LET total_bits == Len(data) * 8
    IN  [b \in 1..blocks_per_frame(cfg.frame_width, cfg.frame_height) |->
            IF b - 1 >= total_bits THEN BlockGray
            ELSE embed_blocks((data[((b - 1) \div 8) + 1] \div Pow2(7 - ((b - 1) % 8))) % 2)]

\* extract_frame: blocks / 8 whole bytes, cut to bytes_per_frame
extract_frame(pixels, cfg) ==
    LET total_bits == blocks_per_frame(cfg.frame_width, cfg.frame_height)
        total_bytes == total_bits \div 8
        bpf == bytes_per_frame(cfg.frame_width, cfg.frame_height, cfg.bits_per_block)
        byte(n) == extract_bit(pixels[8 * n + 1]) * 128 + extract_bit(pixels[8 * n + 2]) * 64
                   + extract_bit(pixels[8 * n + 3]) * 32 + extract_bit(pixels[8 * n + 4]) * 16
                   + extract_bit(pixels[8 * n + 5]) * 8 + extract_bit(pixels[8 * n + 6]) * 4
                   + extract_bit(pixels[8 * n + 7]) * 2 + extract_bit(pixels[8 * n + 8])
    IN  [n \in 1..Min(total_bytes, bpf) |-> byte(n - 1)]

\* encode_to_file: the frames written to the lossless encoder, in order
encode_to_file(packet_data, cfg) ==
    LET bpf == bytes_per_frame(cfg.frame_width, cfg.frame_height, cfg.bits_per_block)
        num_frames == CeilDiv(Len(packet_data), bpf)
    IN  [idx \in 1..num_frames |->
            render_frame(Slice(packet_data, (idx - 1) * bpf, Min(idx * bpf, Len(packet_data))), cfg)]

\* decode_from_file: the bytes of every frame read back, joined
decode_from_file(frames, cfg) ==
    Concat([i \in 1..Len(frames) |-> extract_frame(frames[i], cfg)])

----------------------------------------------------------------------------
(* scan_for_packets as a function of the stream: the loop of ScStep run to its end *)

RECURSIVE scan_from(_, _, _)
scan_from(data, offset, packets) ==
    IF offset + PACKET_HEADER_SIZE <= Len(data)
    THEN LET pos == find_magic(Slice(data, offset, Len(data)), write_u32(MAGIC))
             abs_pos == offset + pos
             r == deserialize_packet(Slice(data, abs_pos, Len(data)))
         IN  IF pos # -1
             THEN IF r.ok
                  THEN scan_from(data, abs_pos + r.consumed, Append(packets, r.packet))
                  ELSE scan_from(data, abs_pos + 1, packets)
             ELSE packets
    ELSE packets

scan_for_packets(data) == scan_from(data, 0, <<>>)

----------------------------------------------------------------------------
(* Pipeline: pipeline/mod.rs (roundtrip), pipeline/encode.rs, pipeline/decode.rs *)

\* an Option: None is the empty sequence, Some(x) the sequence of x alone
None == <<>>
Some(x) == <<x>>

\* an error returned with ?, and the panic of an expect
Err(msg) == [ok |-> FALSE, err |-> msg]

\* chunk_size - ENCRYPTION_OVERHEAD in usize: a result below zero stands for
\* the subtraction that does not fit (see UsizeUnderflow)
chunk_size_for_encryption(chunk_size) == chunk_size - ENCRYPTION_OVERHEAD

\* a variant of effective_chunk_size that leaves no room for the overhead
effective_chunk_size_Plain(chunk_size, encrypted) == chunk_size

effective_chunk_size(chunk_size, encrypted) ==
    IF encrypted THEN chunk_size_for_encryption(chunk_size) ELSE chunk_size

\* a usize subtraction whose result would be negative: the debug build panics
\* at the subtraction; the release build wraps to 2^64 + n, and with_capacity
\* of chunk_file's reader panics on a capacity above isize::MAX
UsizeUnderflow(n) == n < 0
UnderflowPanics == {Err("panic: attempt to subtract with overflow"),
                    Err("panic: capacity overflow")}

RECURSIVE chunk_file_loop(_, _, _, _)
\* chunk_file's loop when no read fails: the inner loop fills the buffer or
\* reaches the end of the file; total_read is the position in the file
chunk_file_loop(data, chunk_size, total_read, chunks) ==
    LET filled == Min(chunk_size, Len(data) - total_read)
        is_last == total_read + filled >= Len(data)
        pushed == Append(chunks, Chunk(Len(chunks), Slice(data, total_read, total_read + filled),
                                       is_last))
    IN  IF filled = 0
        THEN IF chunks = <<>> THEN chunks
             ELSE [chunks EXCEPT ![Len(chunks)] = Chunk(@.index, @.data, TRUE)]
        ELSE IF is_last THEN pushed
        ELSE chunk_file_loop(data, chunk_size, total_read + filled, pushed)

\* chunk_file: the chunks of the loop, or one empty last chunk for an empty file
chunk_file(data, chunk_size) ==
    LET chunks == chunk_file_loop(data, chunk_size, 0, <<>>)
    IN  IF chunks = <<>> THEN <<Chunk(0, <<>>, TRUE)>> ELSE chunks

\* sha256_file: a digest without collisions
sha256_file(data) == [sha256 |-> data]

\* secure_zero
secure_zero(buf) == Zeros(Len(buf))

\* the configurations tried: small frames, chunk and symbol sizes; the chunk
\* size of those used with a password leaves room for the encryption overhead
Configs ==
    { [chunk_size |-> 2, symbol_size |-> 1, repair_overhead |-> [num |-> 1, den |-> 1],
       frame_width |-> 64, frame_height |-> 64, bits_per_block |-> 1],
      [chunk_size |-> 3, symbol_size |-> 2, repair_overhead |-> [num |-> 1, den |-> 2],
       frame_width |-> 40, frame_height |-> 24, bits_per_block |-> 1],
      [chunk_size |-> ENCRYPTION_OVERHEAD + 2, symbol_size |-> 16,
       repair_overhead |-> [num |-> 1, den |-> 1],
       frame_width |-> 64, frame_height |-> 64, bits_per_block |-> 1],
      [chunk_size |-> ENCRYPTION_OVERHEAD + 3, symbol_size |-> 8,
       repair_overhead |-> [num |-> 1, den |-> 2],
       frame_width |-> 128, frame_height |-> 64, bits_per_block |-> 1] }

\* the input files of roundtrip: every file shorter than MaxFileLen, and the
\* files of that length made of one byte value
RoundtripFiles ==
    SeqsUpTo(FileBytes, MaxFileLen - 1) \cup {[i \in 1..MaxFileLen |-> b] : b \in FileBytes}

\* the calls of roundtrip tried
RoundtripInputs ==
    { [input |-> f, password |-> pw, cfg |-> c] :
        f \in RoundtripFiles,
        pw \in {None, Some(<<99>>)},
        c \in Configs }

----------------------------------------------------------------------------
(* encode_to_file step by step: video/encoder.rs *)

\* render_frame: the number of pixels of a frame
frame_size(cfg) == cfg.frame_width * cfg.frame_height

\* the bytes of frame idx: empty when the data ends before it
frame_data(packet_data, idx, bpf) ==
    LET data_offset == idx * bpf
        data_end == Min(data_offset + bpf, Len(packet_data))
    IN  IF data_offset < Len(packet_data) THEN Slice(packet_data, data_offset, data_end)
        ELSE <<>>

\* a variant of batch_end that forgets the frames left
batch_end_NoMin(frame_idx, batch_size, num_frames) == frame_idx + batch_size

\* the end of the batch that starts at frame_idx
batch_end(frame_idx, batch_size, num_frames) == Min(frame_idx + batch_size, num_frames)

\* the longest packet stream handed to encode_to_file
MaxStreamLen == 18
\* the largest number of worker threads
MaxThreads == 3

\* frame geometries: 8 bytes a frame, 1 byte a frame, and two bits per block
VideoConfigs ==
    { [frame_width |-> 64, frame_height |-> 64, bits_per_block |-> 1],
      [frame_width |-> 40, frame_height |-> 24, bits_per_block |-> 1],
      [frame_width |-> 64, frame_height |-> 64, bits_per_block |-> 2] }

VideoInputs ==
    [packet_data : {[i \in 1..n |-> (i * 37 + 128) % 256] : n \in 0..MaxStreamLen},
     cfg : VideoConfigs,
     threads : 1..MaxThreads]

VdBytesPerFrame ==
    bytes_per_frame(vd_in.cfg.frame_width, vd_in.cfg.frame_height, vd_in.cfg.bits_per_block)

\* num_frames
VdNumFrames == CeilDiv(Len(vd_in.packet_data), VdBytesPerFrame)

VideoInit ==
    /\ vd_in \in VideoInputs
    /\ vd_pc = "start" /\ vd_frame_idx = 0 /\ vd_frames = <<>> /\ vd_stdin = <<>>
    /\ vd_stdin_open = FALSE /\ vd_status = {} /\ vd_out = {} /\ vd_decoded = None
    /\ vd_others_idle

\* the subprocess spawned with a piped stdin, or the error of spawn
VdSpawn ==
    /\ vd_pc = "start"
    /\ \E spawned \in BOOLEAN :
          IF spawned
          THEN vd_pc' = "streaming" /\ vd_stdin_open' = TRUE /\ UNCHANGED vd_out
          ELSE /\ vd_pc' = "failed"
               /\ vd_out' = {Err("failed to spawn ffmpeg process")}
               /\ UNCHANGED vd_stdin_open
    /\ UNCHANGED <<vd_in, vd_frame_idx, vd_frames, vd_stdin, vd_status, vd_decoded, vd_others>>

\* the loop's test and the start of a batch: one worker's task per frame
VdBatch ==
    /\ vd_pc = "streaming"
    /\ vd_frames = <<>>
    /\ vd_frame_idx < VdNumFrames
    /\ vd_frames' = [i \in 1..(batch_end(vd_frame_idx, vd_in.threads, VdNumFrames) - vd_frame_idx)
                        |-> None]
    /\ UNCHANGED <<vd_in, vd_pc, vd_frame_idx, vd_stdin, vd_stdin_open, vd_status, vd_out,
                   vd_decoded, vd_others>>

\* one worker renders its frame of the batch, the workers in any order
VdRender ==
    /\ vd_pc = "streaming"
    /\ \E i \in 1..Len(vd_frames) :
          /\ vd_frames[i] = None
          /\ vd_frames' =
                [vd_frames EXCEPT
                   ![i] = Some([idx |-> vd_frame_idx + i - 1,
                                pixels |-> render_frame(frame_data(vd_in.packet_data,
                                                                   vd_frame_idx + i - 1,
                                                                   VdBytesPerFrame),
                                                        vd_in.cfg),
                                len |-> frame_size(vd_in.cfg)])]
    /\ UNCHANGED <<vd_in, vd_pc, vd_frame_idx, vd_stdin, vd_stdin_open, vd_status, vd_out,
                   vd_decoded, vd_others>>

\* the batch collected, its next frame written to stdin; after the last one
\* frame_idx moves to the end of the batch. A failed write returns its error
\* and drops the child with its stdin.
VdWrite ==
    /\ vd_pc = "streaming"
    /\ vd_frames # <<>>
    /\ \A i \in 1..Len(vd_frames) : vd_frames[i] # None
    /\ LET n == Len(vd_stdin) - vd_frame_idx + 1
       IN  \E written \in BOOLEAN :
              IF written
              THEN /\ vd_stdin' = Append(vd_stdin, vd_frames[n][1])
                   /\ IF n = Len(vd_frames)
                      THEN vd_frame_idx' = vd_frame_idx + Len(vd_frames) /\ vd_frames' = <<>>
                      ELSE UNCHANGED <<vd_frame_idx, vd_frames>>
                   /\ UNCHANGED <<vd_pc, vd_stdin_open, vd_out>>
              ELSE /\ vd_pc' = "failed"
                   /\ vd_stdin_open' = FALSE
                   /\ vd_out' = {Err("failed to write frame data to ffmpeg")}
                   /\ UNCHANGED <<vd_stdin, vd_frame_idx, vd_frames>>
    /\ UNCHANGED <<vd_in, vd_status, vd_decoded, vd_others>>

\* the loop left: stdin dropped
VdClose ==
    /\ vd_pc = "streaming"
    /\ vd_frames = <<>>
    /\ ~(vd_frame_idx < VdNumFrames)
    /\ vd_stdin_open' = FALSE
    /\ vd_pc' = "closed"
    /\ UNCHANGED <<vd_in, vd_frame_idx, vd_frames, vd_stdin, vd_status, vd_out, vd_decoded,
                   vd_others>>

\* child.wait(): the exit status decides the result
VdWait ==
    /\ vd_pc = "closed"
    /\ \E status \in {0, 1} :
          /\ vd_status' = {status}
          /\ vd_out' = {IF status = 0 THEN [ok |-> TRUE]
                        ELSE Err("ffmpeg exited with status")}
    /\ vd_pc' = "reaped"
    /\ UNCHANGED <<vd_in, vd_frame_idx, vd_frames, vd_stdin, vd_stdin_open, vd_decoded,
                   vd_others>>

\* decode_from_file on the video written: the codec is lossless, the frames
\* come back as they were written
VdDecode ==
    /\ vd_pc = "reaped"
    /\ vd_out = {[ok |-> TRUE]}
    /\ vd_decoded' = Some(decode_from_file([i \in 1..Len(vd_stdin) |-> vd_stdin[i].pixels],
                                           vd_in.cfg))
    /\ vd_pc' = "decoded"
    /\ UNCHANGED <<vd_in, vd_frame_idx, vd_frames, vd_stdin, vd_stdin_open, vd_status, vd_out,
                   vd_others>>

VideoNext == VdSpawn \/ VdBatch \/ VdRender \/ VdWrite \/ VdClose \/ VdWait \/ VdDecode

SpecVideo == VideoInit /\ [][VideoNext]_vars

----------------------------------------------------------------------------
(* decode_from_file step by step: video/decoder.rs *)

\* the largest number of frames the codec writes to its stdout
MaxFramesRead == 4

\* frame geometries of one byte a frame: 8 blocks, and 15 blocks
ReaderConfigs ==
    { [frame_width |-> 64, frame_height |-> 8, bits_per_block |-> 1],
      [frame_width |-> 40, frame_height |-> 24, bits_per_block |-> 1] }

\* the codec's stdout: whole frames, then tail bytes of one more; the number
\* of worker threads
ReaderInputs ==
    { [cfg |-> c, frames |-> encode_to_file([i \in 1..n |-> (i * 37 + 128) % 256], c),
       tail |-> t, threads |-> th] :
        c \in ReaderConfigs, n \in 0..MaxFramesRead, th \in 1..MaxThreads,
        t \in {0, 1, 511} }

\* the number of bytes the codec writes
RdStdoutLen == Len(rd_in.frames) * frame_size(rd_in.cfg) + rd_in.tail

\* a variant of read_exact_or_eof that takes the end of the stream inside a
\* frame for a clean end
read_at_eof_Lenient(filled) == "eof"

\* read_exact_or_eof when read returns 0: Ok(false) before the first byte of
\* a frame, the error inside one
read_at_eof(filled) == IF filled = 0 THEN "eof" ELSE "partial frame read"

ReaderInit ==
    /\ rd_in \in ReaderInputs
    /\ rd_pc = "start" /\ rd_pos = 0 /\ rd_filled = 0 /\ rd_batch = <<>>
    /\ rd_all_data = <<>> /\ rd_frame_count = 0 /\ rd_out = {}
    /\ rd_others_idle

\* the subprocess spawned with a piped stdout, or the error of spawn
RdSpawn ==
    /\ rd_pc = "start"
    /\ \E spawned \in BOOLEAN :
          IF spawned
          THEN rd_pc' = "reading" /\ UNCHANGED rd_out
          ELSE rd_pc' = "failed" /\ rd_out' = {Err("failed to spawn ffmpeg for decoding")}
    /\ UNCHANGED <<rd_in, rd_pos, rd_filled, rd_batch, rd_all_data, rd_frame_count, rd_others>>

\* one call of read inside read_exact_or_eof: it returns some of the bytes
\* wanted (all that are there, or half of them), or 0 at the end of the
\* stream; a frame filled is pushed onto the batch, a full batch is extracted
RdRead ==
    /\ rd_pc = "reading"
    /\ LET avail == RdStdoutLen - rd_pos
           want == Min(frame_size(rd_in.cfg) - rd_filled, avail)
       IN  IF avail = 0
           THEN /\ IF read_at_eof(rd_filled) = "eof"
                   THEN /\ rd_pc' = IF rd_batch = <<>> THEN "wait" ELSE "flush"
                        /\ UNCHANGED rd_out
                   ELSE /\ rd_pc' = "failed"
                        /\ rd_out' = {Err(read_at_eof(rd_filled))}
                /\ UNCHANGED <<rd_pos, rd_filled, rd_batch, rd_frame_count>>
           ELSE \E n \in {want, (want + 1) \div 2} :
                   /\ rd_pos' = rd_pos + n
                   /\ IF rd_filled + n = frame_size(rd_in.cfg)
                      THEN /\ rd_filled' = 0
                           /\ rd_batch' = Append(rd_batch,
                                                 [frame |-> rd_in.frames[rd_frame_count + 1],
                                                  data |-> None])
                           /\ rd_frame_count' = rd_frame_count + 1
                           /\ rd_pc' = IF Len(rd_batch) + 1 >= rd_in.threads
                                       THEN "extract" ELSE "reading"
                      ELSE /\ rd_filled' = rd_filled + n
                           /\ UNCHANGED <<rd_batch, rd_frame_count, rd_pc>>
                   /\ UNCHANGED rd_out
    /\ UNCHANGED <<rd_in, rd_all_data, rd_others>>

\* read fails with an error other than Interrupted
RdReadErr ==
    /\ rd_pc = "reading"
    /\ rd_pc' = "failed"
    /\ rd_out' = {Err("read error")}
    /\ UNCHANGED <<rd_in, rd_pos, rd_filled, rd_batch, rd_all_data, rd_frame_count, rd_others>>

\* one worker extracts its frame of the batch, the workers in any order
RdExtract ==
    /\ rd_pc \in {"extract", "flush"}
    /\ \E i \in 1..Len(rd_batch) :
          /\ rd_batch[i].data = None
          /\ rd_batch' = [rd_batch EXCEPT
                             ![i].data = Some(extract_frame(rd_batch[i].frame, rd_in.cfg))]
    /\ UNCHANGED <<rd_in, rd_pc, rd_pos, rd_filled, rd_all_data, rd_frame_count, rd_out,
                   rd_others>>

\* the batch collected: its frames' bytes appended to all_data in the order
\* of the batch; the batch cleared in the loop, dropped after it
RdCollect ==
    /\ rd_pc \in {"extract", "flush"}
    /\ \A i \in 1..Len(rd_batch) : rd_batch[i].data # None
    /\ rd_all_data' = rd_all_data \o Concat([i \in 1..Len(rd_batch) |-> rd_batch[i].data[1]])
    /\ rd_batch' = <<>>
    /\ rd_pc' = IF rd_pc = "extract" THEN "reading" ELSE "wait"
    /\ UNCHANGED <<rd_in, rd_pos, rd_filled, rd_frame_count, rd_out, rd_others>>

\* child.wait(): the exit status decides the result
RdWait ==
    /\ rd_pc = "wait"
    /\ \E status \in {0, 1} :
          rd_out' = {IF status = 0 THEN [ok |-> TRUE, data |-> rd_all_data]
                     ELSE Err("ffmpeg decode exited with status")}
    /\ rd_pc' = "done"
    /\ UNCHANGED <<rd_in, rd_pos, rd_filled, rd_batch, rd_all_data, rd_frame_count, rd_others>>

ReaderNext == RdSpawn \/ RdRead \/ RdReadErr \/ RdExtract \/ RdCollect \/ RdWait

SpecReader == ReaderInit /\ [][ReaderNext]_vars

----------------------------------------------------------------------------
(* roundtrip *)

\* the environment of a call of roundtrip: the hook it is given, whether the
\* input file exists, whether reads, writes and the codec may fail
NoFaults == [hook |-> "noop", input_exists |-> TRUE, io_faults |-> FALSE]

\* the path handed to encode_file, and a path of the hook's own
encoded_path == "encoded_path"
hook_path == "hook_path"

\* the video file at a path
video_at(path) == IF path = encoded_path THEN rt_video ELSE hk_video

RoundtripInit(inputs, envs) ==
    \* the chunk sizes above the encryption overhead go with a password
    /\ rt_in \in {x \in inputs :
                     (x.cfg.chunk_size > ENCRYPTION_OVERHEAD) => (x.password # None)}
    /\ rt_env \in envs
    /\ rt_pc = "call"
    /\ rt_trace = <<>> /\ hk_out = {} /\ hk_video = None
    /\ en_file_id = None /\ en_key = None /\ en_chunks = <<>> /\ en_chunk_packets = <<>>
    /\ en_calls = <<>> /\ en_stream = <<>> /\ en_k = None
    /\ rt_video = None
    /\ de_path = None /\ de_packets = <<>> /\ de_file_id = None /\ de_key = None
    /\ de_chunk_indices = <<>> /\ de_decoded = <<>> /\ de_k = None
    /\ rt_output = None
    /\ rt_result = {}
    /\ rt_others_idle

Init == RoundtripInit(RoundtripInputs, {NoFaults})

\* roundtrip's first step: the digest of the input, an error if it cannot be read
HashInput ==
    /\ rt_pc = "call"
    /\ rt_trace' = Append(rt_trace, "hash_input")
    /\ IF rt_env.input_exists
       THEN rt_pc' = "start" /\ UNCHANGED rt_result
       ELSE rt_pc' = "done" /\ rt_result' = {Err("failed to open input")}
    /\ UNCHANGED <<rt_in, rt_env, hk_out, hk_video, en_vars, rt_video, de_vars, rt_output>>
    /\ UNCHANGED rt_others

\* encode_file up to the parallel map: the file id, the key, the chunks; a
\* failed read of the input returns the error of chunk_file
EncodeStart ==
    /\ rt_pc = "start"
    /\ rt_trace' = Append(rt_trace, "encode_file")
    /\ \E file_id \in FileIds, read_ok \in IF rt_env.io_faults THEN BOOLEAN ELSE {TRUE} :
          LET encrypted == rt_in.password # None
              key == IF encrypted THEN Some(derive_key(rt_in.password[1], file_id)) ELSE None
              size == effective_chunk_size(rt_in.cfg.chunk_size, encrypted)
              chunks == chunk_file(rt_in.input, size)
          IN  /\ en_file_id' = Some(file_id)
              /\ en_key' = key
              /\ IF UsizeUnderflow(size)
                 THEN /\ rt_result' \in {{e} : e \in UnderflowPanics}
                      /\ rt_pc' = "done"
                      /\ UNCHANGED <<en_chunks, en_chunk_packets>>
                 ELSE IF read_ok
                 THEN /\ en_chunks' = chunks
                      /\ en_chunk_packets' = [i \in 1..Len(chunks) |-> None]
                      /\ rt_pc' = "encode"
                      /\ UNCHANGED rt_result
                 ELSE /\ rt_result' = {Err("failed to chunk input file")}
                      /\ rt_pc' = "done"
                      /\ UNCHANGED <<en_chunks, en_chunk_packets>>
    /\ UNCHANGED <<rt_in, rt_env, hk_out, hk_video, en_calls, en_stream, en_k, rt_video,
                   de_vars, rt_output>>
    /\ UNCHANGED rt_others

\* a variant of chunk_to_packets that emits the symbols last to first
chunk_to_packets_Reversed(chunk, chunk_data, file_id, encrypted, cfg) ==
    LET symbols == encode_chunk(chunk_data, cfg.symbol_size, cfg.repair_overhead)
        k == CeilDiv(Len(chunk_data), cfg.symbol_size)
        n == Len(symbols)
    IN  [j \in 1..n |->
            serialize_packet(file_id, chunk.index, Len(chunk_data), Len(chunk.data),
                             AsU16(cfg.symbol_size), k, symbols[n + 1 - j].esi,
                             (IF encrypted THEN FLAG_ENCRYPTED ELSE 0)
                             + (IF chunk.is_last THEN FLAG_LAST_CHUNK ELSE 0)
                             + (IF symbols[n + 1 - j].is_repair THEN FLAG_REPAIR_SYMBOL ELSE 0),
                             symbols[n + 1 - j].data)]

\* a variant of chunk_to_packets that leaves the encrypted bit out
chunk_to_packets_NoEncryptedBit(chunk, chunk_data, file_id, encrypted, cfg) ==
    LET symbols == encode_chunk(chunk_data, cfg.symbol_size, cfg.repair_overhead)
        k == CeilDiv(Len(chunk_data), cfg.symbol_size)
        flags == IF chunk.is_last THEN FLAG_LAST_CHUNK ELSE 0
    IN  [j \in 1..Len(symbols) |->
            serialize_packet(file_id, chunk.index, Len(chunk_data), Len(chunk.data),
                             AsU16(cfg.symbol_size), k, symbols[j].esi,
                             flags + (IF symbols[j].is_repair THEN FLAG_REPAIR_SYMBOL ELSE 0),
                             symbols[j].data)]

\* a variant of chunk_to_packets whose k rounds down
chunk_to_packets_FloorK(chunk, chunk_data, file_id, encrypted, cfg) ==
    LET symbols == encode_chunk(chunk_data, cfg.symbol_size, cfg.repair_overhead)
        k == Len(chunk_data) \div cfg.symbol_size
        flags == (IF encrypted THEN FLAG_ENCRYPTED ELSE 0)
                 + (IF chunk.is_last THEN FLAG_LAST_CHUNK ELSE 0)
    IN  [j \in 1..Len(symbols) |->
            serialize_packet(file_id, chunk.index, Len(chunk_data), Len(chunk.data),
                             AsU16(cfg.symbol_size), k, symbols[j].esi,
                             flags + (IF symbols[j].is_repair THEN FLAG_REPAIR_SYMBOL ELSE 0),
                             symbols[j].data)]

\* the packets of one chunk: the body of encode_file's parallel map
chunk_to_packets(chunk, chunk_data, file_id, encrypted, cfg) ==
    LET symbols == encode_chunk(chunk_data, cfg.symbol_size, cfg.repair_overhead)
        k == CeilDiv(Len(chunk_data), cfg.symbol_size)
        flags == (IF encrypted THEN FLAG_ENCRYPTED ELSE 0)
                 + (IF chunk.is_last THEN FLAG_LAST_CHUNK ELSE 0)
    IN  [j \in 1..Len(symbols) |->
            serialize_packet(file_id, chunk.index, Len(chunk_data), Len(chunk.data),
                             AsU16(cfg.symbol_size), k, symbols[j].esi,
                             flags + (IF symbols[j].is_repair THEN FLAG_REPAIR_SYMBOL ELSE 0),
                             symbols[j].data)]

\* one chunk of encode_file's parallel map, the chunks in any order: seal the
\* chunk if there is a key, fountain-encode it, serialize the packets
EncodeChunk ==
    /\ rt_pc = "encode"
    /\ \E i \in 1..Len(en_chunks) :
          /\ en_chunk_packets[i] = None
          /\ LET chunk == en_chunks[i]
                 file_id == en_file_id[1]
                 sealed == encrypt_chunk(en_key[1], file_id, chunk.index, chunk.data)
                 chunk_data == IF en_key # None THEN sealed.data ELSE chunk.data
             IN  /\ en_chunk_packets' =
                       [en_chunk_packets EXCEPT
                          ![i] = Some(chunk_to_packets(chunk, chunk_data, file_id,
                                                       en_key # None, rt_in.cfg))]
                 /\ en_calls' =
                       IF en_key # None
                       THEN Append(en_calls,
                                   [key |-> en_key[1], nonce |-> build_nonce(file_id, chunk.index),
                                    chunk_index |-> chunk.index, plaintext |-> chunk.data,
                                    output |-> sealed.data])
                       ELSE en_calls
    /\ UNCHANGED <<rt_in, rt_pc, hk_vars, en_file_id, en_key, en_chunks, en_stream, en_k,
                   rt_video, de_vars, rt_output, rt_result>>
    /\ UNCHANGED rt_others

\* the rest of encode_file: the packets of all chunks in chunk order, the
\* video, the key bound to k and k zeroed (the array is Copy: key itself
\* keeps its bytes). The external encoder handed no frame at all either fails
\* or writes a video without frames; it may fail when the environment does.
EncodeFinish ==
    /\ rt_pc = "encode"
    /\ \A i \in 1..Len(en_chunks) : en_chunk_packets[i] # None
    /\ en_stream' = Concat([i \in 1..Len(en_chunks) |-> Concat(en_chunk_packets[i][1])])
    /\ LET frames == encode_to_file(en_stream', rt_in.cfg)
       IN  \E status \in IF frames = <<>> \/ rt_env.io_faults
                         THEN {"success", "failure"} ELSE {"success"} :
              IF status = "success"
              THEN /\ rt_video' = Some(frames)
                   /\ en_k' = IF en_key # None THEN Some(secure_zero(en_key[1])) ELSE None
                   /\ rt_pc' = "encoded"
                   /\ UNCHANGED rt_result
              ELSE /\ rt_result' = {Err("ffmpeg exited with status")}
                   /\ rt_pc' = "done"
                   /\ UNCHANGED <<rt_video, en_k>>
    /\ UNCHANGED <<rt_in, hk_vars, en_file_id, en_key, en_chunks, en_chunk_packets, en_calls,
                   de_vars, rt_output>>
    /\ UNCHANGED rt_others

\* NoopHook::after_encode: the encoded path comes back unchanged
Hook ==
    /\ rt_pc = "encoded"
    /\ rt_env.hook = "noop"
    /\ rt_trace' = Append(rt_trace, "after_encode")
    /\ hk_out' = {[ok |-> TRUE, path |-> encoded_path]}
    /\ rt_pc' = "hooked"
    /\ UNCHANGED <<rt_in, rt_env, hk_video, en_vars, rt_video, de_vars, rt_output, rt_result>>
    /\ UNCHANGED rt_others

\* a hook whose after_encode returns an error
HookFail ==
    /\ rt_pc = "encoded"
    /\ rt_env.hook = "fail"
    /\ rt_trace' = Append(rt_trace, "after_encode")
    /\ hk_out' = {Err("hook failed")}
    /\ rt_result' = {Err("hook failed")}
    /\ rt_pc' = "done"
    /\ UNCHANGED <<rt_in, rt_env, hk_video, en_vars, rt_video, de_vars, rt_output>>
    /\ UNCHANGED rt_others

\* the serialized packets of the encoded video, in stream order
StreamPackets == Concat([i \in 1..Len(en_chunks) |-> en_chunk_packets[i][1]])

\* the number of bytes of the packets before the one at position p
PacketOffset(packets, p) == Len(Concat(SubSeq(packets, 1, p - 1)))

\* the positions in the stream of the first packet of each chunk
ChunkStarts ==
    {1 + Len(Concat([i \in 1..j |-> en_chunk_packets[i][1]])) : j \in 0..(Len(en_chunks) - 1)}

\* a hook that returns a path of its own: the video there went through a
\* channel that blanked a run of packets (from a, the first packet of a
\* chunk, to b; none when b < a)
HookLossy ==
    /\ rt_pc = "encoded"
    /\ rt_env.hook = "lossy"
    /\ rt_trace' = Append(rt_trace, "after_encode")
    /\ \E a \in ChunkStarts \cup {1} :
         \E b \in (IF a = 1 THEN 0 ELSE a)..Len(StreamPackets) :
            LET from == PacketOffset(StreamPackets, a)
                to == PacketOffset(StreamPackets, b + 1)
                damaged == [i \in 1..Len(en_stream) |->
                               IF from < i /\ i <= to THEN 0 ELSE en_stream[i]]
            IN  hk_video' = Some(encode_to_file(damaged, rt_in.cfg))
    /\ hk_out' = {[ok |-> TRUE, path |-> hook_path]}
    /\ rt_pc' = "hooked"
    /\ UNCHANGED <<rt_in, rt_env, en_vars, rt_video, de_vars, rt_output, rt_result>>
    /\ UNCHANGED rt_others

\* a packet with the first byte of its payload altered and its checksum redone
TamperPacket(bytes) ==
    LET pkt == deserialize_packet(bytes).packet
        h == pkt.header
    IN  serialize_packet(h.file_id, h.chunk_index, h.chunk_size, h.original_size,
                         h.symbol_size, h.k, h.esi, h.flags,
                         [pkt.payload EXCEPT ![1] = Xor(@, 1)])

\* a hook that returns a path of its own: in the video there one packet was
\* altered by someone who can redo the checksum
HookTamper ==
    /\ rt_pc = "encoded"
    /\ rt_env.hook = "tamper"
    /\ rt_trace' = Append(rt_trace, "after_encode")
    /\ \E p \in 1..Len(StreamPackets) :
          hk_video' = Some(encode_to_file(
                              Concat([StreamPackets EXCEPT ![p] = TamperPacket(@)]),
                              rt_in.cfg))
    /\ hk_out' = {[ok |-> TRUE, path |-> hook_path]}
    /\ rt_pc' = "hooked"
    /\ UNCHANGED <<rt_in, rt_env, en_vars, rt_video, de_vars, rt_output, rt_result>>
    /\ UNCHANGED rt_others

\* the chunk indices in the order in which the stream first shows them
SortedIndices_StreamOrder(packets) ==
    LET set == {packets[i].header.chunk_index : i \in 1..Len(packets)}
        first(ci) == CHOOSE i \in 1..Len(packets) :
                        /\ packets[i].header.chunk_index = ci
                        /\ \A j \in 1..(i - 1) : packets[j].header.chunk_index # ci
    IN  CHOOSE s \in [1..Cardinality(set) -> set] :
            \A i \in 1..(Cardinality(set) - 1) : first(s[i]) < first(s[i + 1])

\* the sorted chunk indices of the packets
SortedIndices(packets) ==
    LET set == {packets[i].header.chunk_index : i \in 1..Len(packets)}
    IN  CHOOSE s \in [1..Cardinality(set) -> set] :
            \A i \in 1..(Cardinality(set) - 1) : s[i] < s[i + 1]

\* decode_file called with a path, steps 1 and 2: the frames read back from
\* the video at the path, the packets scanned from their bytes; the external
\* decoder may fail when the environment does
DecodeScanFrom(path) ==
    /\ rt_pc = "hooked"
    /\ rt_trace' = Append(rt_trace, "decode_file")
    /\ de_path' = Some(path)
    /\ \E read_ok \in IF rt_env.io_faults THEN BOOLEAN ELSE {TRUE} :
          IF read_ok
          THEN /\ de_packets' = scan_for_packets(decode_from_file(video_at(path)[1], rt_in.cfg))
               /\ rt_pc' = "scanned"
               /\ UNCHANGED rt_result
          ELSE /\ rt_result' = {Err("ffmpeg decode exited with status")}
               /\ rt_pc' = "done"
               /\ UNCHANGED de_packets
    /\ UNCHANGED <<rt_in, rt_env, hk_out, hk_video, en_vars, rt_video, rt_output, de_file_id,
                   de_key, de_chunk_indices, de_decoded, de_k>>
    /\ UNCHANGED rt_others

\* a variant of roundtrip that decodes the path it encoded to
DecodeScan_EncodedPath == DecodeScanFrom(encoded_path)

\* roundtrip's call of decode_file: with the path the hook returned
DecodeScan ==
    \E r \in hk_out : DecodeScanFrom(r.path)

\* a reader of the flags that never sees the encrypted bit
is_encrypted_Never(header) == FALSE

\* PacketHeader::is_encrypted
is_encrypted(header) == (header.flags \div FLAG_ENCRYPTED) % 2 = 1

\* PacketHeader::is_repair
is_repair(header) == (header.flags \div FLAG_REPAIR_SYMBOL) % 2 = 1

\* PacketHeader::is_last_chunk
is_last_chunk(header) == (header.flags \div FLAG_LAST_CHUNK) % 2 = 1

\* decode_file up to the parallel map: no packet is an error; the file id and
\* the encrypted flag of the first packet, the key, the packets grouped by
\* chunk index
DecodeGroup ==
    /\ rt_pc = "scanned"
    /\ IF de_packets = <<>>
       THEN /\ rt_result' = {Err("no valid packets found in video")}
            /\ rt_pc' = "done"
            /\ UNCHANGED <<de_file_id, de_key, de_chunk_indices, de_decoded>>
       ELSE IF is_encrypted(de_packets[1].header) /\ rt_in.password = None
       THEN /\ rt_result' = {Err("file is encrypted but no password provided")}
            /\ rt_pc' = "done"
            /\ UNCHANGED <<de_file_id, de_key, de_chunk_indices, de_decoded>>
       ELSE /\ de_file_id' = Some(de_packets[1].header.file_id)
            /\ de_key' = IF is_encrypted(de_packets[1].header)
                         THEN Some(derive_key(rt_in.password[1], de_packets[1].header.file_id))
                         ELSE None
            /\ de_chunk_indices' = SortedIndices(de_packets)
            /\ de_decoded' = [i \in 1..Len(de_chunk_indices') |-> None]
            /\ rt_pc' = "decode"
            /\ UNCHANGED rt_result
    /\ UNCHANGED <<rt_in, hk_vars, en_vars, rt_video, rt_output, de_path, de_packets, de_k>>
    /\ UNCHANGED rt_others

\* the packets of one chunk, in stream order
chunk_packets(packets, ci) == SelectSeq(packets, LAMBDA p : p.header.chunk_index = ci)

\* one chunk of decode_file's parallel map, the chunks in any order: fountain
\* decoding from the chunk's packets, then decrypt_chunk if there is a key; a
\* failure of either is the panic of its expect
DecodeChunk ==
    /\ rt_pc = "decode"
    /\ \E i \in 1..Len(de_chunk_indices) :
          /\ de_decoded[i] = None
          /\ LET ci == de_chunk_indices[i]
                 pkts == chunk_packets(de_packets, ci)
                 k == pkts[1].header.k
                 chunk_size == pkts[1].header.chunk_size
                 rows == [j \in 1..Len(pkts) |->
                            SymbolRow(pkts[j].header.esi, pkts[j].payload,
                                      is_repair(pkts[j].header), k)]
                 recovered == recover(rows, k, chunk_size)
                 opened == decrypt_chunk(de_key[1], de_file_id[1], ci, recovered.data)
             IN  IF ~recovered.ok
                 THEN /\ rt_result' = {Err("panic: fountain decoding failed for chunk")}
                      /\ rt_pc' = "done"
                      /\ UNCHANGED de_decoded
                 ELSE IF de_key # None /\ ~opened.ok
                 THEN /\ rt_result' = {Err("panic: decryption failed for chunk")}
                      /\ rt_pc' = "done"
                      /\ UNCHANGED de_decoded
                 ELSE /\ de_decoded' =
                            [de_decoded EXCEPT
                               ![i] = Some(IF de_key # None THEN opened.data ELSE recovered.data)]
                      /\ UNCHANGED <<rt_result, rt_pc>>
    /\ UNCHANGED <<rt_in, hk_vars, en_vars, rt_video, de_path, de_packets, de_file_id, de_key,
                   de_chunk_indices, de_k, rt_output>>
    /\ UNCHANGED rt_others

\* the rest of decode_file: the chunks written in index order, the key bound
\* to k and k zeroed; the output file may fail to be created when the
\* environment fails
DecodeFinish ==
    /\ rt_pc = "decode"
    /\ \A i \in 1..Len(de_chunk_indices) : de_decoded[i] # None
    /\ \E write_ok \in IF rt_env.io_faults THEN BOOLEAN ELSE {TRUE} :
          IF write_ok
          THEN /\ rt_output' = Some(Concat([i \in 1..Len(de_chunk_indices) |-> de_decoded[i][1]]))
               /\ de_k' = IF de_key # None THEN Some(secure_zero(de_key[1])) ELSE None
               /\ rt_pc' = "decoded"
               /\ UNCHANGED rt_result
          ELSE /\ rt_result' = {Err("failed to create output file")}
               /\ rt_pc' = "done"
               /\ UNCHANGED <<rt_output, de_k>>
    /\ UNCHANGED <<rt_in, hk_vars, en_vars, rt_video, de_path, de_packets, de_file_id, de_key,
                   de_chunk_indices, de_decoded>>
    /\ UNCHANGED rt_others

\* the end of roundtrip: the digests of the input and the output compared
Compare ==
    /\ rt_pc = "decoded"
    /\ rt_trace' = Append(rt_trace, "hash_output")
    /\ LET original_hash == sha256_file(rt_in.input)
           decoded_hash == sha256_file(rt_output[1])
       IN  rt_result' = {[ok |-> TRUE, original_hash |-> original_hash,
                          decoded_hash |-> decoded_hash,
                          matched |-> (original_hash = decoded_hash)]}
    /\ rt_pc' = "done"
    /\ UNCHANGED <<rt_in, rt_env, hk_out, hk_video, en_vars, rt_video, de_vars, rt_output>>
    /\ UNCHANGED rt_others

Next ==
    \/ HashInput \/ EncodeStart \/ EncodeChunk \/ EncodeFinish \/ Hook
    \/ DecodeScan \/ DecodeGroup \/ DecodeChunk \/ DecodeFinish \/ Compare

Spec == Init /\ [][Next]_vars

\* the files and configurations of the calls with hooks and failures: an
\* empty file and one of several chunks, without and with a password
HookedFiles == {<<>>, [i \in 1..MaxFileLen |-> (i * 37) % 256]}

HookedInputs ==
    { [input |-> f, password |-> pw, cfg |-> c] :
        f \in HookedFiles,
        pw \in {None, Some(<<99>>)},
        c \in {x \in Configs : x.symbol_size \in {1, 16}} }

\* the environments: each hook on a sound file system, a missing input, a
\* file system and codec that may fail
Environments ==
    { [hook |-> h, input_exists |-> TRUE, io_faults |-> FALSE] :
        h \in {"noop", "fail", "lossy", "tamper"} }
    \cup { [hook |-> "noop", input_exists |-> FALSE, io_faults |-> FALSE],
           [hook |-> "noop", input_exists |-> TRUE, io_faults |-> TRUE] }

HookedInit == RoundtripInit(HookedInputs, Environments)

HookedNext ==
    \/ HashInput \/ EncodeStart \/ EncodeChunk \/ EncodeFinish
    \/ Hook \/ HookFail \/ HookLossy \/ HookTamper
    \/ DecodeScan \/ DecodeGroup \/ DecodeChunk \/ DecodeFinish \/ Compare

SpecHooked == HookedInit /\ [][HookedNext]_vars

----------------------------------------------------------------------------
(* roundtrip with hooks that hand decode_file a stream other than the one
   encode_file wrote *)

\* a file id other than the given one
OtherFileId(id) == CHOOSE x \in FileIds : x # id

\* a serialized packet rebuilt from a header and a payload, the checksum redone
Reserialize(h, payload) ==
    serialize_packet(h.file_id, h.chunk_index, h.chunk_size, h.original_size,
                     h.symbol_size, h.k, h.esi, h.flags, payload)

\* a packet of another origin that passes the checksum: the chunk index and
\* esi of the given one, one header field of its own, a payload of its own
ForgePacket(bytes, field) ==
    LET pkt == deserialize_packet(bytes).packet
        h == pkt.header
        payload == [pkt.payload EXCEPT ![1] = Xor(@, 1)]
    IN  IF field = "file_id"
        THEN Reserialize([h EXCEPT !.file_id = OtherFileId(@)], payload)
        ELSE Reserialize([h EXCEPT !.k = @ + 1], payload)

\* a packet with its encrypted bit flipped, the checksum redone
ReflagPacket(bytes) ==
    LET pkt == deserialize_packet(bytes).packet
        h == pkt.header
    IN  Reserialize([h EXCEPT !.flags = IF (@ \div FLAG_ENCRYPTED) % 2 = 1 THEN @ - FLAG_ENCRYPTED
                                       ELSE @ + FLAG_ENCRYPTED],
                    pkt.payload)

\* orders of n packets: reversed, rotated by one, two neighbours swapped, the
\* first and the last swapped
PermSample(n) ==
    {[i \in 1..n |-> n + 1 - i], [i \in 1..n |-> (i % n) + 1]}
    \cup {[i \in 1..n |-> IF i = a THEN a + 1 ELSE IF i = a + 1 THEN a ELSE i] : a \in 1..(n - 1)}
    \cup {[i \in 1..n |-> IF i = 1 THEN n ELSE IF i = n THEN 1 ELSE i]}

\* what a hook of the kind does to the video: the packets it leaves at its
\* own path
ChannelStreams(kind) ==
    LET n == Len(StreamPackets)
    IN  CASE kind = "permute" ->
               {[i \in 1..n |-> StreamPackets[perm[i]]] : perm \in PermSample(n)}
          [] kind = "forge" ->
               {SubSeq(StreamPackets, 1, p - 1) \o <<ForgePacket(StreamPackets[p], field)>>
                \o SubSeq(StreamPackets, p, n) : p \in 2..n, field \in {"file_id", "k"}}
          [] kind = "reflag" ->
               {[i \in 1..n |-> ReflagPacket(StreamPackets[i])]}
          [] OTHER -> {<<Zeros(Len(en_stream))>>}

\* a hook that returns a path of its own: the video there holds the packets
\* in another order, a packet more, other flags, or no packet
HookChannel ==
    /\ rt_pc = "encoded"
    /\ rt_env.hook \in {"permute", "forge", "reflag", "blank"}
    /\ rt_trace' = Append(rt_trace, "after_encode")
    /\ \E stream \in ChannelStreams(rt_env.hook) :
          hk_video' = Some(encode_to_file(Concat(stream), rt_in.cfg))
    /\ hk_out' = {[ok |-> TRUE, path |-> hook_path]}
    /\ rt_pc' = "hooked"
    /\ UNCHANGED <<rt_in, rt_env, en_vars, rt_video, de_vars, rt_output, rt_result>>
    /\ UNCHANGED rt_others

\* a file of several chunks, without and with a password
ChannelInputs ==
    { [input |-> [i \in 1..MaxFileLen |-> (i * 37) % 256], password |-> pw, cfg |-> c] :
        pw \in {None, Some(<<99>>)},
        c \in {x \in Configs : x.symbol_size \in {1, 16}} }

ChannelEnvironments ==
    { [hook |-> h, input_exists |-> TRUE, io_faults |-> FALSE] :
        h \in {"permute", "forge", "reflag", "blank"} }
    \cup { [hook |-> "noop", input_exists |-> TRUE, io_faults |-> TRUE] }

ChannelInit == RoundtripInit(ChannelInputs, ChannelEnvironments)

ChannelNext ==
    \/ HashInput \/ EncodeStart \/ EncodeChunk \/ EncodeFinish
    \/ Hook \/ HookChannel
    \/ DecodeScan \/ DecodeGroup \/ DecodeChunk \/ DecodeFinish \/ Compare

SpecChannel == ChannelInit /\ [][ChannelNext]_vars

----------------------------------------------------------------------------
(* encode_file's worker on one chunk: pipeline/encode.rs, the closure of the
   parallel map *)

\* the chunks handed to the worker
EmitChunks ==
    { Chunk(idx, [i \in 1..n |-> (i * 37) % 256], last) :
        idx \in {0, 3}, n \in 0..MaxChunkSize, last \in BOOLEAN }

\* the worker's inputs: symbol sizes that divide the chunk, that do not, that
\* exceed it, a symbol size of zero, and one that does not fit the header's
\* 16-bit field
EmitInputs ==
    { [chunk |-> c, password |-> pw, file_id |-> [i \in 1..FILE_ID_SIZE |-> i - 1],
       cfg |-> [symbol_size |-> ss, repair_overhead |-> ro]] :
        c \in EmitChunks, pw \in {None, Some(<<99>>)}, ss \in {0, 1, 2, 16},
        ro \in {[num |-> 1, den |-> 1], [num |-> 1, den |-> 2]} }
    \cup { [chunk |-> Chunk(0, <<37, 74, 111>>, TRUE), password |-> None,
            file_id |-> [i \in 1..FILE_ID_SIZE |-> i - 1],
            cfg |-> [symbol_size |-> U16_RANGE, repair_overhead |-> [num |-> 1, den |-> 2]]] }

EmitInit ==
    /\ em_in \in EmitInputs
    /\ em_pc = "start" /\ em_data = None /\ em_out = {}
    /\ em_others_idle

\* chunk_data: the chunk sealed if there is a key, else its bytes
EmSeal ==
    /\ em_pc = "start"
    /\ em_data' = Some(IF em_in.password # None
                       THEN encrypt_chunk(derive_key(em_in.password[1], em_in.file_id),
                                          em_in.file_id, em_in.chunk.index,
                                          em_in.chunk.data).data
                       ELSE em_in.chunk.data)
    /\ em_pc' = "sealed"
    /\ UNCHANGED <<em_in, em_out, em_others>>

\* the symbols, k and the serialized packets; with a symbol size of zero
\* expect panics on the fountain encoder's error, or the division of line 65
\* panics
EmPackets ==
    /\ em_pc = "sealed"
    /\ IF em_in.cfg.symbol_size = 0
       THEN em_out' \in {{Err("panic: fountain encoding failed")},
                         {Err("panic: attempt to divide by zero")}}
       ELSE em_out' = {[ok |-> TRUE,
                        packets |-> chunk_to_packets(em_in.chunk, em_data[1], em_in.file_id,
                                                     em_in.password # None, em_in.cfg)]}
    /\ em_pc' = "done"
    /\ UNCHANGED <<em_in, em_data, em_others>>

EmitNext == EmSeal \/ EmPackets

SpecEmit == EmitInit /\ [][EmitNext]_vars

\* tests: the CRC-32/MPEG-2 of "123456789" is 0x0376E6E7, of "" 0xFFFFFFFF
CrcKnownValues ==
    /\ crc32_mpeg2(<<49, 50, 51, 52, 53, 54, 55, 56, 57>>) = <<3, 118, 230, 231>>
    /\ crc32_mpeg2(<<>>) = <<255, 255, 255, 255>>

----------------------------------------------------------------------------
(* Chunker claims *)

\* what chunk_file returned (when it has) and what chunk_bytes returned (when called)
ChunkerResults ==
    (IF ck_pc = "done" THEN {ck_chunks} ELSE {}) \cup
    (IF cb_chunks # <<>> THEN {cb_chunks} ELSE {})

\* C2: for every input and chunk size >= 1, the chunks chunk_bytes and
\* chunk_file return carry the indices 0, 1, ..., n-1 in the order they were
\* emitted, and their data concatenated in that order is the input
C2_IndicesAndConcat ==
    \A cs \in ChunkerResults :
        /\ \A i \in 1..Len(cs) : cs[i].index = i - 1
        /\ Concat([i \in 1..Len(cs) |-> cs[i].data]) = ck_data

\* C2's case: both functions returned several chunks
C2_Witness ==
    /\ ck_pc = "done" /\ Len(ck_chunks) >= 3
    /\ Len(cb_chunks) >= 3

\* C3: at least one chunk is returned, exactly one chunk is flagged last and
\* it is the one with the highest index; the empty input gives the single chunk
\* (0, empty, last)
C3_ExactlyOneLast ==
    \A cs \in ChunkerResults :
        /\ Len(cs) >= 1
        /\ \A i \in 1..Len(cs) : cs[i].is_last <=> (i = Len(cs))
        /\ (ck_data = <<>> => cs = <<Chunk(0, <<>>, TRUE)>>)

\* C3's case: chunk_file returned for an input that is a whole number (>= 2)
\* of chunks
C3_Witness ==
    /\ ck_pc = "done"
    /\ cb_chunks # <<>>
    /\ Len(ck_data) = 2 * ck_size

\* C4: every chunk but the last is exactly chunk_size long, and the last one
\* holds between 1 and chunk_size bytes when the input is not empty
C4_ChunkLengths ==
    \A cs \in ChunkerResults :
        /\ \A i \in 1..(Len(cs) - 1) : Len(cs[i].data) = ck_size
        /\ (ck_data # <<>> =>
               /\ Len(cs[Len(cs)].data) >= 1
               /\ Len(cs[Len(cs)].data) <= ck_size)

\* C4's case: a short last chunk after a full one
C4_Witness ==
    /\ ck_pc = "done" /\ cb_chunks # <<>>
    /\ Len(ck_chunks) >= 2
    /\ Len(ck_chunks[Len(ck_chunks)].data) < ck_size

----------------------------------------------------------------------------
(* Packet claims *)

\* deserialize_packet's result r is the packet serialize_packet was given, whole
PkRoundtrip(r) ==
    /\ r.ok
    /\ r.packet.header.magic = MAGIC
    /\ r.packet.header.version = 2
    /\ r.packet.header.flags = pk_in.hdr.flags
    /\ r.packet.header.file_id = pk_in.hdr.file_id
    /\ r.packet.header.chunk_index = pk_in.hdr.chunk_index
    /\ r.packet.header.chunk_size = pk_in.hdr.chunk_size
    /\ r.packet.header.original_size = pk_in.hdr.original_size
    /\ r.packet.header.symbol_size = pk_in.hdr.symbol_size
    /\ r.packet.header.k = pk_in.hdr.k
    /\ r.packet.header.esi = pk_in.hdr.esi
    /\ r.packet.header.payload_length = Len(pk_in.payload)
    /\ r.packet.payload = pk_in.payload
    /\ r.consumed = 50 + Len(pk_in.payload)

\* C5 as stated: for every payload, deserialize_packet(serialize_packet(...))
\* succeeds and returns every header field and the payload unchanged, with
\* magic 0x59545333, version 2, payload_length the payload's length and
\* consumed = 50 + the payload's length
C5_Original ==
    \A r \in pk_out : ~pk_tampered => PkRoundtrip(r)

\* C5 amended: the same for every payload of at most 65535 bytes (the
\* payload_length field is a u16)
C5_RoundtripU16 ==
    \A r \in pk_out : (~pk_tampered /\ Len(pk_in.payload) < U16_RANGE) => PkRoundtrip(r)

\* C5's case: a packet with a payload and header values of several bytes went
\* through serialize_packet and deserialize_packet
C5_Witness ==
    /\ ~pk_tampered
    /\ \E r \in pk_out : r.ok
    /\ Len(pk_in.payload) = MaxPayloadLen
    /\ pk_in.hdr.chunk_index > 65536

\* C6: a serialized packet with one payload byte changed to another value
\* fails to deserialize with the CRC-mismatch error
C6_TamperDetected ==
    \A r \in pk_out : pk_tampered => (~r.ok /\ r.err = "CrcMismatch")

\* C6's case: the last payload byte was altered and deserialize_packet ran
C6_Witness ==
    /\ pk_out # {} /\ pk_tampered
    /\ Len(pk_in.payload) >= 2
    /\ pk_wire[Len(pk_wire)] # pk_in.payload[Len(pk_in.payload)]

----------------------------------------------------------------------------
(* Scanner claims *)

\* the 0-based offset in the stream at which segment i starts
SegStart(segs, i) == Len(StreamBytes(SubSeq(segs, 1, i - 1)))

\* the intact packets of the stream, parsed, in stream order
RECURSIVE IntactPackets(_)
IntactPackets(segs) ==
    IF segs = <<>> THEN <<>>
    ELSE (IF Head(segs).kind = "packet"
          THEN <<deserialize_packet(Head(segs).bytes).packet>> ELSE <<>>)
         \o IntactPackets(Tail(segs))

\* the stream of the magic-resync test: two packets in garbage
IsGarbageStream == \E i \in 1..Len(sc_segs) : sc_segs[i].kind = "garbage"

\* at some offset inside the garbage or inside a damaged packet, the bytes from
\* there on pass deserialize_packet's checks
StrayParse ==
    \E i \in 1..Len(sc_segs) :
        /\ sc_segs[i].kind # "packet"
        /\ LET start == SegStart(sc_segs, i)
           IN  \E at \in start..(start + Len(sc_segs[i].bytes) - 1) :
                  /\ at + 4 <= Len(sc_data)
                  /\ sc_data[at + 1] = 51 /\ sc_data[at + 2] = 83
                  /\ sc_data[at + 3] = 84 /\ sc_data[at + 4] = 89
                  /\ deserialize_packet(Slice(sc_data, at, Len(sc_data))).ok

\* C7 as stated: with any garbage before, between and after two valid
\* packets, also garbage that holds the magic value, scan_for_packets returns
\* exactly the two packets, in order
C7_Original ==
    (sc_pc = "done" /\ IsGarbageStream) => sc_packets = IntactPackets(sc_segs)

\* C7 amended: the same, for garbage in which no occurrence of the magic value
\* starts bytes (running on into the stream) that pass deserialize_packet's
\* version, length and CRC checks
C7_ScanGarbage ==
    (sc_pc = "done" /\ IsGarbageStream /\ ~StrayParse) => sc_packets = IntactPackets(sc_segs)

\* C7's case: the scan ended on a stream whose garbage holds the magic value
\* before and between the packets and that ends with the second packet, and
\* two packets were found
C7_Witness ==
    /\ sc_pc = "done" /\ IsGarbageStream /\ ~StrayParse
    /\ sc_segs[1].bytes = write_u32(MAGIC) \o <<PACKET_VERSION>>
    /\ sc_segs[3].bytes = write_u32(MAGIC)
    /\ sc_segs[5].bytes = <<>>
    /\ Len(sc_packets) = 2

\* C8 as stated: of concatenated packets some of which were damaged,
\* scan_for_packets returns exactly the undamaged ones, in order
C8_Original ==
    (sc_pc = "done" /\ ~IsGarbageStream) => sc_packets = IntactPackets(sc_segs)

\* C8 amended: the same, when no occurrence of the magic value inside a
\* damaged packet starts bytes that pass deserialize_packet's checks
C8_ScanCorrupt ==
    (sc_pc = "done" /\ ~IsGarbageStream /\ ~StrayParse) => sc_packets = IntactPackets(sc_segs)

\* C8's case: the first and the second of three packets were damaged (the
\* first holds the magic value in its payload) and the third was returned
C8_Witness ==
    /\ sc_pc = "done" /\ ~IsGarbageStream /\ ~StrayParse
    /\ sc_segs[1].kind = "corrupt" /\ sc_segs[2].kind = "corrupt" /\ sc_segs[3].kind = "packet"
    /\ Len(sc_segs[1].bytes) >= PACKET_HEADER_SIZE + 4
    /\ Len(sc_packets) = 1

----------------------------------------------------------------------------
(* Crypto claims *)

\* the call of decrypt_chunk was made with encrypt_chunk's key, file id and chunk index
SameCall(c) ==
    /\ c.key = cr_in.key
    /\ c.file_id = cr_in.file_id
    /\ c.chunk_index = cr_in.chunk_index

\* C9: encrypt_chunk returns the 4-byte little-endian plaintext length followed
\* by ciphertext and tag of len+16 bytes (len+20 in all); decrypt_chunk on that
\* output returns the plaintext if and only if it is called with the same key,
\* file id and chunk index, and a Decryption error otherwise; on an input
\* truncated to fewer than 20 bytes it returns a Decryption error.
C9_SealOpen ==
    /\ (cr_sealed # <<>> /\ ~cr_cut) =>
          /\ Len(cr_sealed) = Len(cr_in.plaintext) + ENCRYPTION_OVERHEAD
          /\ Slice(cr_sealed, 0, 4) = write_u32(Len(cr_in.plaintext))
          /\ Len(Slice(cr_sealed, 4, Len(cr_sealed))) = Len(cr_in.plaintext) + AEAD_TAG_SIZE
    /\ \A c \in cr_call, r \in cr_out :
          /\ ~r.ok => r.err = "Decryption"
          /\ ~cr_cut => ((r.ok /\ r.data = cr_in.plaintext) <=> SameCall(c))
          /\ ~cr_cut => (~r.ok <=> ~SameCall(c))
          /\ (cr_cut /\ Len(cr_sealed) < ENCRYPTION_OVERHEAD) => ~r.ok

\* a plaintext of the greatest length was sealed under chunk index 256 and
\* opened again with the same key, file id and chunk index
C9_Witness ==
    /\ cr_call # {} /\ cr_out # {}
    /\ Len(cr_in.plaintext) = MaxPlainLen
    /\ cr_in.chunk_index = 256
    /\ ~cr_cut
    /\ \A c \in cr_call, r \in cr_out : SameCall(c) /\ r.ok /\ r.data = cr_in.plaintext

----------------------------------------------------------------------------
(* Pipeline claims *)

\* C1: for every input file, with or without a password, roundtrip with the
\* no-op hook ends with an output byte-identical to the input and
\* RoundtripResult.matched true.
C1_Roundtrip ==
    rt_pc = "done" =>
        /\ rt_result # {}
        /\ \A r \in rt_result : r.ok /\ r.matched
        /\ rt_output = Some(rt_in.input)

\* roundtrip, for a file that is not empty or with a password, ends with an
\* output byte-identical to the input and matched true
RoundtripNonEmpty ==
    (rt_pc = "done" /\ (rt_in.input # <<>> \/ rt_in.password # None)) =>
        /\ rt_result # {}
        /\ \A r \in rt_result : r.ok /\ r.matched
        /\ rt_output = Some(rt_in.input)

\* the nonce encrypt_chunk is to use: file id, chunk index little-endian, four zero bytes
NonceLayout(file_id, chunk_index) ==
    file_id \o <<chunk_index % 256, (chunk_index \div 256) % 256,
                 (chunk_index \div 65536) % 256, (chunk_index \div 16777216) % 256>>
            \o <<0, 0, 0, 0>>

\* C10: the nonce is file_id, then chunk_index little-endian, then four zero
\* bytes, and differs for different chunk indices of a file id; the calls of
\* encrypt_chunk of one encode_file, in whatever order the workers run, never
\* use the same (key, nonce) twice; equal plaintexts sealed under different
\* chunk indices give different outputs.
C10_NonceUnique ==
    /\ \A i \in 1..Len(en_calls) :
          /\ Len(en_calls[i].nonce) = NONCE_SIZE
          /\ en_calls[i].nonce = NonceLayout(en_file_id[1], en_calls[i].chunk_index)
    /\ \A fid \in FileIds, a \in ChunkIndices, b \in ChunkIndices :
          a # b => build_nonce(fid, a) # build_nonce(fid, b)
    /\ \A i \in 1..Len(en_calls), j \in 1..Len(en_calls) :
          i # j =>
             /\ <<en_calls[i].key, en_calls[i].nonce>> # <<en_calls[j].key, en_calls[j].nonce>>
             /\ (en_calls[i].plaintext = en_calls[j].plaintext
                 /\ en_calls[i].chunk_index # en_calls[j].chunk_index)
                   => en_calls[i].output # en_calls[j].output

\* two chunks of equal bytes were sealed, the later chunk first
C10_Witness ==
    /\ Len(en_calls) >= 2
    /\ en_calls[1].chunk_index > en_calls[2].chunk_index
    /\ en_calls[1].plaintext = en_calls[2].plaintext
    /\ en_calls[1].plaintext # <<>>

----------------------------------------------------------------------------
(* Claims about the fountain code *)

RECURSIVE XorMasks(_, _)
\* the symmetric difference of the masks of the rows at the positions of set
XorMasks(rows, set) ==
    IF set = {} THEN {}
    ELSE LET i == CHOOSE x \in set : TRUE
             rest == XorMasks(rows, set \ {i})
         IN  (rest \ rows[i].mask) \cup (rows[i].mask \ rest)

\* the source positions combinations of the rows can reach
Span(rows) == {XorMasks(rows, set) : set \in SUBSET (1..Len(rows))}

\* the rank of the rows over GF(2)
Rank(rows) == CHOOSE r \in 0..Len(rows) : Pow2(r) = Cardinality(Span(rows))

FnHeld == DecoderRows(fn_rows, fn_k)

\* C11: a decoder created with the published k that holds symbols of rank k
\* recovers exactly the original payload, cut to chunk_size; when the symbols
\* held are rank-deficient recover returns an error, never wrong data
C11_RecoverExact ==
    \A r \in fn_out :
        /\ Rank(FnHeld) = fn_k => r.ok /\ r.data = fn_in.data
        /\ Rank(FnHeld) < fn_k => ~r.ok
        /\ r.ok => r.data = fn_in.data

\* a payload that does not fill its last symbol was recovered with the help of
\* a repair symbol, a source symbol missing
C11_Witness ==
    /\ fn_pc = "recovered"
    /\ fn_k >= 2
    /\ Len(fn_in.data) < fn_k * fn_in.symbol_size
    /\ \E i \in 1..Len(fn_rows) : fn_rows[i].is_repair
    /\ \E j \in 0..(fn_k - 1) : \A i \in 1..Len(fn_rows) : fn_rows[i].esi # j
    /\ \E r \in fn_out : r.ok /\ r.data = fn_in.data

\* the symbols of syms once each, in ascending esi
InEsiOrder(syms) ==
    LET held == {syms[i] : i \in 1..Len(syms)}
        esis == {x.esi : x \in held}
        nth(i) == CHOOSE e \in esis : Cardinality({d \in esis : d < e}) = i - 1
    IN  [i \in 1..Cardinality(esis) |-> CHOOSE x \in held : x.esi = nth(i)]

\* the symbol the step added is one the decoder had, or one that depends on
\* those it had
FnAddedRedundant ==
    LET new == fn_rows'[Len(fn_rows')]
    IN  \/ \E i \in 1..Len(fn_rows) : fn_rows[i].esi = new.esi
        \/ SymbolRow(new.esi, new.data, new.is_repair, fn_k).mask \in Span(FnHeld)

\* C12: symbols are added in the state collecting only and recover ends it;
\* adding a symbol whose esi was added before, or one that depends on those
\* held, changes neither the rank nor what recover returns; recover's result
\* does not depend on the order the symbols were added in
C12_OrderAndDuplicates ==
    /\ [][/\ fn_pc \in {"start", "collecting"}
          /\ (FnAdd /\ FnAddedRedundant) =>
                /\ Rank(DecoderRows(fn_rows', fn_k)) = Rank(FnHeld)
                /\ recover(DecoderRows(fn_rows', fn_k), fn_k, Len(fn_in.data))
                     = recover(FnHeld, fn_k, Len(fn_in.data))]_vars
    /\ [](\A r \in fn_out :
             r = recover(DecoderRows(InEsiOrder(fn_rows), fn_k), fn_k, Len(fn_in.data)))

\* recovered from symbols added out of esi order, one of them twice
C12_Witness ==
    /\ fn_pc = "recovered"
    /\ fn_k >= 2
    /\ \E i, j \in 1..Len(fn_rows) : i < j /\ fn_rows[i].esi = fn_rows[j].esi
    /\ \E i, j \in 1..Len(fn_rows) : i < j /\ fn_rows[i].esi > fn_rows[j].esi
    /\ \E r \in fn_out : r.ok /\ r.data = fn_in.data

----------------------------------------------------------------------------
(* Claims about roundtrip with hooks and failures *)

\* the steps of roundtrip in their order
StepOrder == <<"hash_input", "encode_file", "after_encode", "decode_file", "hash_output">>

\* the step an error comes from
FailedStep(err) ==
    CASE err = "failed to open input" -> "hash_input"
      [] err \in {"failed to chunk input file", "ffmpeg exited with status"}
                 \cup {e.err : e \in UnderflowPanics} -> "encode_file"
      [] err = "hook failed" -> "after_encode"
      [] OTHER -> "decode_file"

\* C13: roundtrip starts its steps in the order hash(input), encode_file,
\* after_encode, decode_file, hash(output); decode_file is called with the
\* path the hook returned; a step is started only while no step has failed,
\* so an error is returned from the last step started; on success all five
\* steps ran and matched is true exactly when the two digests are equal, the
\* digests being those of the input and of the output
C13_StepOrder ==
    /\ [](/\ rt_trace = SubSeq(StepOrder, 1, Len(rt_trace))
          /\ de_path # None => \E h \in hk_out : h.ok /\ de_path = Some(h.path)
          /\ \A r \in rt_result :
                IF r.ok
                THEN /\ rt_trace = StepOrder
                     /\ r.original_hash = sha256_file(rt_in.input)
                     /\ r.decoded_hash = sha256_file(rt_output[1])
                     /\ r.matched <=> (r.original_hash = r.decoded_hash)
                ELSE rt_trace[Len(rt_trace)] = FailedStep(r.err))
    /\ [][rt_result = {}]_vars

\* roundtrip returned a result after decoding a video the hook put at a path
\* of its own, different from the encoded video
C13_Witness ==
    /\ rt_pc = "done"
    /\ de_path = Some(hook_path)
    /\ hk_video # rt_video
    /\ \E r \in rt_result : r.ok

----------------------------------------------------------------------------
(* Claims about the DCT tables *)

\* the bit the block handed to extract_bit stands for
DcExpected == IF dc_block[1] = "B1" THEN 1 ELSE 0

\* C14 as stated: for every positive strength extract_bit returns b for the
\* pattern of bit b, and 0 for the neutral block
C14_Original ==
    dc_pc = "extracted" => dc_bit = {DcExpected}

\* the largest shift of a strength whose patterns both differ from the
\* neutral block: strengths of at least 2^-40
MIN_STRENGTH_SHIFT == 40

\* C14: for the default strength and every strength of at least 2^-40
\* extract_bit returns b for the pattern of bit b; for every strength it
\* returns 0 for the neutral block
C14_EmbedExtract ==
    (dc_pc = "extracted" /\ (dc_strength.shift <= MIN_STRENGTH_SHIFT \/ dc_block[1] = "neutral"))
        => dc_bit = {DcExpected}

\* the pattern of bit 1 built with the default strength gave 1
C14_Witness ==
    /\ dc_pc = "extracted"
    /\ dc_strength = DEFAULT_COEFFICIENT_STRENGTH
    /\ dc_block[1] = "B1"
    /\ dc_block[2] # NeutralBlock
    /\ dc_bit = {1}

\* the chunk indices among the packets decode_file scanned
DeIndices == {de_packets[i].header.chunk_index : i \in 1..Len(de_packets)}

\* the chunk indices whose packets carry the last-chunk flag
DeLastIndices ==
    {de_packets[i].header.chunk_index :
        i \in {j \in 1..Len(de_packets) : is_last_chunk(de_packets[j].header)}}

\* C15: decode_file writes its output only if a chunk with the last-chunk flag
\* is present and every chunk from index 0 up to it was recovered
C15_NoPartialOutput ==
    rt_output # None =>
        \E last \in DeLastIndices : \A ci \in 0..last : ci \in DeIndices

\* decode_file wrote an output file although some chunk of the input had no
\* packet left in the video
C15_PartialOutput ==
    /\ rt_output # None
    /\ \E i \in 1..Len(en_chunks) : en_chunks[i].index \notin DeIndices
    /\ Len(rt_output[1]) < Len(rt_in.input)

\* the panics of the expects in decode_file's parallel map
DecodePanics ==
    {"panic: fountain decoding failed for chunk", "panic: decryption failed for chunk"}

\* C16: a chunk whose fountain decoding or whose AEAD open fails ends
\* decode_file with an error returned to the caller, never with a panic
C16_ErrorNotPanic ==
    \A r \in rt_result : ~r.ok => r.err \notin DecodePanics

\* C17: when encode_file or decode_file has returned after deriving a key,
\* the key is zeroed and no copy of it keeps its bytes
C17_KeyZeroedOnExit ==
    /\ (rt_pc \in {"encoded", "hooked", "scanned", "decode", "decoded", "done"} /\ en_key # None) =>
            /\ en_key = Some(secure_zero(en_key[1]))
            /\ en_k \in {None, en_key}
    /\ (rt_pc \in {"decoded", "done"} /\ de_key # None) =>
            /\ de_key = Some(secure_zero(de_key[1]))
            /\ de_k \in {None, de_key}

----------------------------------------------------------------------------
(* Claims about the packet stream and the frames *)

\* the packets read back from the stream encode_file hands to the video encoder
EnStreamPackets == scan_for_packets(en_stream)

\* C18: whatever order the workers finished in, the packet stream handed to
\* the video encoder is made of the packets of all symbols of all chunks and
\* of nothing else, the chunks in ascending index, each chunk's packets
\* together and in ascending esi
C18_StreamOrder ==
    rt_pc = "encoded" =>
        LET pkts == EnStreamPackets
            key(i) == <<pkts[i].header.chunk_index, pkts[i].header.esi>>
        IN  /\ Len(pkts) = Len(StreamPackets)
            /\ Len(en_stream) = Len(Concat(StreamPackets))
            /\ {pkts[i].header.chunk_index : i \in 1..Len(pkts)}
                  \subseteq {en_chunks[i].index : i \in 1..Len(en_chunks)}
            /\ \A i \in 1..(Len(pkts) - 1) :
                  \/ key(i)[1] < key(i + 1)[1]
                  \/ key(i)[1] = key(i + 1)[1] /\ key(i)[2] < key(i + 1)[2]

\* the stream of a file of several chunks whose later chunk was sealed first
C18_Witness ==
    /\ rt_pc = "encoded"
    /\ Len(en_calls) >= 2
    /\ en_calls[1].chunk_index > en_calls[2].chunk_index
    /\ Len(en_stream) > 2 * PACKET_HEADER_SIZE

\* the frame encode_to_file has to write at position i of stdin
ExpectedFrame(i) ==
    render_frame(Slice(vd_in.packet_data, (i - 1) * VdBytesPerFrame,
                       Min(i * VdBytesPerFrame, Len(vd_in.packet_data))), vd_in.cfg)

\* C19: whatever the number of threads and the order the workers render in,
\* the frames on stdin are the frames 0, 1, 2, ... in this order, each of W*H
\* bytes and rendered from its slice of the packet bytes; stdin is closed by
\* encode_to_file only once all ceil(len / bytes_per_frame) frames are
\* written, the subprocess is waited for only after that, and success is
\* returned only for the exit status zero
C19_FramesInOrder ==
    /\ \A i \in 1..Len(vd_stdin) :
          /\ vd_stdin[i].idx = i - 1
          /\ vd_stdin[i].len = vd_in.cfg.frame_width * vd_in.cfg.frame_height
          /\ vd_stdin[i].pixels = ExpectedFrame(i)
    /\ Len(vd_stdin) <= CeilDiv(Len(vd_in.packet_data), VdBytesPerFrame)
    /\ vd_pc \in {"closed", "reaped", "decoded"} =>
          /\ ~vd_stdin_open
          /\ Len(vd_stdin) = CeilDiv(Len(vd_in.packet_data), VdBytesPerFrame)
    /\ vd_pc \in {"start", "streaming"} => vd_status = {}
    /\ vd_status # {} => ~vd_stdin_open
    /\ \A r \in vd_out : r.ok => vd_status = {0}

\* several threads wrote more than one batch, the last frame not full, and
\* the subprocess ended with status zero
C19_Witness ==
    /\ vd_pc = "reaped"
    /\ vd_in.threads > 1
    /\ Len(vd_stdin) > vd_in.threads
    /\ Len(vd_in.packet_data) % VdBytesPerFrame # 0
    /\ vd_out = {[ok |-> TRUE]}

\* C20: the bytes extract_frame reads from a rendered frame are the frame's
\* data followed by zero bytes up to bytes_per_frame, so the stream read back
\* from the video is the packet stream followed by zero bytes only
C20_FrameRoundtrip ==
    vd_decoded # None =>
        /\ Len(vd_decoded[1]) = Len(vd_stdin) * VdBytesPerFrame
        /\ SubSeq(vd_decoded[1], 1, Len(vd_in.packet_data)) = vd_in.packet_data
        /\ \A i \in (Len(vd_in.packet_data) + 1)..Len(vd_decoded[1]) : vd_decoded[1][i] = 0

\* C20 for one bit per block
C20_OneBitPerBlock ==
    (vd_decoded # None /\ vd_in.cfg.bits_per_block = 1) =>
        /\ Len(vd_decoded[1]) = Len(vd_stdin) * VdBytesPerFrame
        /\ SubSeq(vd_decoded[1], 1, Len(vd_in.packet_data)) = vd_in.packet_data
        /\ \A i \in (Len(vd_in.packet_data) + 1)..Len(vd_decoded[1]) : vd_decoded[1][i] = 0

----------------------------------------------------------------------------
(* Claims about decode_from_file *)

\* the bytes of the first m frames of the codec's stdout, in order
RdExpected(m) == decode_from_file(SubSeq(rd_in.frames, 1, m), rd_in.cfg)

\* C21: decode_from_file consumes stdout in units of W*H bytes: frame_count
\* whole frames and the bytes filled make up what was consumed; reading ends
\* normally only with the stream ending at a frame boundary; a stream that
\* ends inside a frame gives an error and no data; all_data is the bytes of
\* the frames collected so far in the order they were read, and the data
\* returned is that of all frames, for every batch size
C21_FrameUnits ==
    /\ rd_pos = rd_frame_count * frame_size(rd_in.cfg) + rd_filled
    /\ rd_filled < frame_size(rd_in.cfg)
    /\ rd_pc \in {"flush", "wait", "done"} =>
          /\ rd_pos = RdStdoutLen /\ rd_filled = 0 /\ rd_in.tail = 0
          /\ rd_frame_count = Len(rd_in.frames)
    /\ rd_all_data = RdExpected(rd_frame_count - Len(rd_batch))
    /\ \A r \in rd_out :
          /\ r.ok => rd_in.tail = 0 /\ r.data = RdExpected(Len(rd_in.frames))
          /\ rd_in.tail > 0 => ~r.ok
    /\ (rd_pc = "failed" /\ rd_pos = RdStdoutLen /\ rd_filled > 0) =>
          rd_out \subseteq {Err("partial frame read"), Err("read error")}

\* a stream that ended inside a frame after full batches were extracted
C21_Witness ==
    /\ rd_out = {Err("partial frame read")}
    /\ rd_in.threads >= 2
    /\ rd_frame_count > rd_in.threads
    /\ rd_all_data # <<>>
    /\ rd_filled = rd_in.tail

----------------------------------------------------------------------------
(* Claims about the packets of a chunk *)

\* the packets the worker emitted
EmPacketsOut == UNION {IF r.ok THEN {r.packets[j] : j \in 1..Len(r.packets)} ELSE {} : r \in em_out}

\* payload_length equals symbol_size in the header and the payload has the
\* configured size; k is ceil(chunk_size / symbol_size) and as many packets
\* of the chunk are source symbols
EmLengthsAndK ==
    \A r \in em_out : r.ok =>
        /\ \A j \in 1..Len(r.packets) :
              LET p == r.packets[j]
              IN  /\ read_u16(p, OFF_PAYLOAD_LEN) = read_u16(p, OFF_SYMBOL_SIZE)
                  /\ Len(p) = PACKET_HEADER_SIZE + em_in.cfg.symbol_size
                  /\ read_u32(p, OFF_CHUNK_SIZE) = Len(em_data[1])
                  /\ read_u32(p, OFF_K) = CeilDiv(Len(em_data[1]), em_in.cfg.symbol_size)
        /\ Cardinality({j \in 1..Len(r.packets) :
                           (r.packets[j][OFF_FLAGS + 1] % 2) = 0})
             = CeilDiv(Len(em_data[1]), em_in.cfg.symbol_size)

\* C22 as stated: the above, and k * symbol_size >= chunk_size in the header
\* of every packet emitted
C22_Original ==
    /\ EmLengthsAndK
    /\ \A p \in EmPacketsOut :
          read_u32(p, OFF_K) * read_u16(p, OFF_SYMBOL_SIZE) >= read_u32(p, OFF_CHUNK_SIZE)

\* C22: every packet emitted has payload_length == symbol_size and k =
\* ceil(chunk_size / symbol_size), the number of source symbols of its chunk;
\* k * symbol_size >= chunk_size holds for the header's fields when the
\* configured symbol size fits the 16-bit field
C22_LengthsAndK ==
    /\ EmLengthsAndK
    /\ em_in.cfg.symbol_size < U16_RANGE =>
          \A p \in EmPacketsOut :
             read_u32(p, OFF_K) * read_u16(p, OFF_SYMBOL_SIZE) >= read_u32(p, OFF_CHUNK_SIZE)

\* a sealed chunk that the symbol size does not divide, source and repair packets
C22_Witness ==
    /\ em_pc = "done"
    /\ em_in.password # None
    /\ em_in.cfg.symbol_size = 16
    /\ \E r \in em_out : r.ok /\ Len(r.packets) = 4
    /\ \E p \in EmPacketsOut : read_u32(p, OFF_K) = 2 /\ read_u32(p, OFF_CHUNK_SIZE) = 23

----------------------------------------------------------------------------
(* Claims about the packets of one encode_file call *)

\* the packets the workers of encode_file have emitted so far
EnEmitted ==
    UNION { IF en_chunk_packets[i] = None THEN {}
            ELSE {en_chunk_packets[i][1][j] : j \in 1..Len(en_chunk_packets[i][1])} :
            i \in 1..Len(en_chunk_packets) }

\* the chunks hold at most the effective chunk size, c - 20 with a password
\* and c without; with a password every packet has chunk_size =
\* original_size + 20 <= c, without one chunk_size = original_size
EnChunkSizes ==
    LET c == rt_in.cfg.chunk_size
        encrypted == rt_in.password # None
    IN  /\ \A i \in 1..Len(en_chunks) :
              Len(en_chunks[i].data) <= (IF encrypted THEN c - ENCRYPTION_OVERHEAD ELSE c)
        /\ \A p \in EnEmitted :
              IF encrypted
              THEN /\ read_u32(p, OFF_CHUNK_SIZE)
                        = read_u32(p, OFF_ORIGINAL_SIZE) + ENCRYPTION_OVERHEAD
                   /\ read_u32(p, OFF_CHUNK_SIZE) <= c
              ELSE read_u32(p, OFF_CHUNK_SIZE) = read_u32(p, OFF_ORIGINAL_SIZE)

\* C23 as stated: the effective chunk size is c - 20 for every configured c
\* with encryption on: encode_file gets past it with that size
C23_Original ==
    /\ EnChunkSizes
    /\ rt_result \cap UnderflowPanics = {}

\* C23: for chunk sizes c >= 20 with encryption and all c without, the
\* effective chunk size is c - 20 and c; with encryption every packet has
\* chunk_size = original_size + 20 <= c, without it chunk_size =
\* original_size; for c < 20 with encryption encode_file panics
C23_EffectiveChunkSize ==
    /\ EnChunkSizes
    /\ (rt_in.password # None /\ rt_in.cfg.chunk_size >= ENCRYPTION_OVERHEAD) =>
          /\ effective_chunk_size(rt_in.cfg.chunk_size, TRUE)
                = rt_in.cfg.chunk_size - ENCRYPTION_OVERHEAD
          /\ rt_result \cap UnderflowPanics = {}
    /\ rt_in.password = None =>
          /\ effective_chunk_size(rt_in.cfg.chunk_size, FALSE) = rt_in.cfg.chunk_size
          /\ rt_result \cap UnderflowPanics = {}
    /\ (rt_in.password # None /\ rt_in.cfg.chunk_size < ENCRYPTION_OVERHEAD
        /\ rt_pc \notin {"call", "start"} /\ rt_env.input_exists) =>
          /\ rt_result \subseteq UnderflowPanics /\ rt_result # {}
          /\ en_chunks = <<>>

\* a file sealed in two chunks of the full effective size, all packets emitted
C23_Witness ==
    /\ rt_pc = "encoded"
    /\ rt_in.password # None
    /\ Len(en_chunks) = 2
    /\ \A p \in EnEmitted :
          /\ read_u32(p, OFF_CHUNK_SIZE) = rt_in.cfg.chunk_size
          /\ read_u32(p, OFF_ORIGINAL_SIZE) = rt_in.cfg.chunk_size - ENCRYPTION_OVERHEAD

\* the flag bits of a serialized packet
BitRepair(p) == p[OFF_FLAGS + 1] % 2
BitLast(p) == (p[OFF_FLAGS + 1] \div FLAG_LAST_CHUNK) % 2
BitEncrypted(p) == (p[OFF_FLAGS + 1] \div FLAG_ENCRYPTED) % 2

\* C24: all packets of one encode_file call carry the same file_id, that of
\* the call; the encrypted bit is set on all of them with a password and on
\* none without; the last-chunk bit is set on exactly the packets of the
\* highest-indexed chunk; the repair bit is set on exactly those with esi >= k
C24_FlagsConsistent ==
    \A p \in EnEmitted :
        /\ Slice(p, OFF_FILE_ID, OFF_FILE_ID + FILE_ID_SIZE) = en_file_id[1]
        /\ BitEncrypted(p) = 1 <=> rt_in.password # None
        /\ BitLast(p) = 1 <=> read_u32(p, OFF_CHUNK_INDEX) = Len(en_chunks) - 1
        /\ BitRepair(p) = 1 <=> read_u32(p, OFF_ESI) >= read_u32(p, OFF_K)
        /\ p[OFF_FLAGS + 1] < 8

\* two sealed chunks with source and repair packets, all emitted
C24_Witness ==
    /\ rt_pc = "encoded"
    /\ rt_in.password # None
    /\ Len(en_chunks) >= 2
    /\ \E p, q \in EnEmitted :
          /\ read_u32(p, OFF_CHUNK_INDEX) = 0 /\ BitRepair(p) = 1 /\ BitLast(p) = 0
          /\ read_u32(q, OFF_CHUNK_INDEX) = 1 /\ BitRepair(q) = 0 /\ BitLast(q) = 1

----------------------------------------------------------------------------
(* Claims about the checks of deserialize_packet *)

\* C25: no packet deserialize_packet returns has a payload_length different
\* from its symbol_size (a payload_length of 0, which the format allows for
\* malformed packets, is let through here): a buffer with valid magic,
\* version and CRC whose two fields differ gets the payload-length-mismatch
\* error
C25_LengthMismatchRejected ==
    \A r \in pk_out :
        IF r.ok
        THEN \/ r.packet.header.payload_length = r.packet.header.symbol_size
             \/ r.packet.header.payload_length = 0
        ELSE (/\ Len(pk_wire) >= PACKET_HEADER_SIZE
              /\ read_u16(pk_wire, OFF_PAYLOAD_LEN) # read_u16(pk_wire, OFF_SYMBOL_SIZE)
              /\ ~pk_tampered)
             => r.err = "PayloadLengthMismatch"

----------------------------------------------------------------------------
(* Claims about decode_file on streams other than the one encoded *)

\* C26: every packet fed to the fountain decoder of a chunk that was decoded
\* agrees with the first packet of that chunk in k, chunk_size,
\* original_size, the last-chunk flag and the symbol size, and with the first
\* packet of the stream in the file_id
C26_ChunkPacketsAgree ==
    \A i \in 1..Len(de_decoded) :
        de_decoded[i] # None =>
            LET pkts == chunk_packets(de_packets, de_chunk_indices[i])
                first == pkts[1].header
            IN  \A j \in 1..Len(pkts) :
                    LET h == pkts[j].header
                    IN  /\ h.k = first.k
                        /\ h.chunk_size = first.chunk_size
                        /\ h.original_size = first.original_size
                        /\ is_last_chunk(h) = is_last_chunk(first)
                        /\ h.symbol_size = first.symbol_size
                        /\ h.file_id = de_packets[1].header.file_id

----------------------------------------------------------------------------
(* Claims about configuration values *)

\* C27: encode_file rejects a symbol_size of zero (as it does a width or
\* height that is no multiple of 8 and an fps that is not positive) with an
\* error returned to the caller: the worker of a chunk never panics and never
\* divides by zero
C27_InvalidConfigRejected ==
    \A r \in em_out :
        em_in.cfg.symbol_size = 0 =>
            /\ ~r.ok
            /\ r.err \notin {"panic: fountain encoding failed",
                             "panic: attempt to divide by zero"}

----------------------------------------------------------------------------
(* Claims about the order of the packets *)

\* C28: decode_file's output does not depend on the order of the packets in
\* the stream: when the packets encode_file wrote reach it in another order,
\* it processes the chunks in ascending chunk_index order and writes the
\* bytes of the input file
C28_OrderIndependent ==
    rt_env.hook = "permute" =>
        /\ \A i \in 1..(Len(de_chunk_indices) - 1) :
               de_chunk_indices[i] < de_chunk_indices[i + 1]
        /\ rt_output # None => rt_output[1] = rt_in.input
        /\ hk_out # {} => \A r \in rt_result : r.ok /\ r.matched

\* C28's case: a file of several chunks decoded from a stream in which a
\* packet of a later chunk comes before a packet of an earlier one
C28_Witness ==
    /\ rt_env.hook = "permute"
    /\ Len(de_chunk_indices) >= 2
    /\ \E i, j \in 1..Len(de_packets) :
          i < j /\ de_packets[i].header.chunk_index > de_packets[j].header.chunk_index
    /\ rt_output = Some(rt_in.input)
    /\ \E r \in rt_result : r.ok /\ r.matched

----------------------------------------------------------------------------
(* Claims about the scanner's progress *)

\* the bytes the i-th returned packet was parsed from, and what parsing them
\* gives
ScanParsed(i) == deserialize_packet(Slice(sc_data, sc_starts[i], Len(sc_data)))

\* the packets returned so far lie in the input one after the other without
\* overlap, each where the magic bytes stand, and each passes the version,
\* length and CRC checks
ScanRanges ==
    /\ Len(sc_starts) = Len(sc_packets)
    /\ \A i \in 1..Len(sc_starts) :
          LET start == sc_starts[i]
              r == ScanParsed(i)
              end == start + PACKET_HEADER_SIZE + sc_packets[i].header.payload_length
          IN  /\ Slice(sc_data, start, start + 4) = write_u32(MAGIC)
              /\ sc_data[start + OFF_VERSION + 1] = PACKET_VERSION
              /\ end <= Len(sc_data)
              /\ r.ok /\ r.packet = sc_packets[i] /\ r.consumed = end - start
              /\ i < Len(sc_starts) => end <= sc_starts[i + 1]
              /\ end <= sc_offset

\* C29: scan_for_packets terminates on every input: every iteration of its
\* loop that does not leave the loop moves the offset forward, the offset
\* never passes the end of the input, and so the loop body runs at most once
\* per input byte; the packets returned occupy non-overlapping ranges of the
\* input in increasing order, each starting with the magic bytes and passing
\* the version, length and CRC checks
C29_ScanTerminates ==
    /\ [][sc_pc' = "loop" => sc_offset' > sc_offset]_sc_vars
    /\ [](sc_offset <= Len(sc_data) /\ sc_iter <= Len(sc_data))
    /\ []ScanRanges

\* C29's case: the scan ended after iterations that skipped magic values that
\* did not parse and after it returned two packets, the first with a payload
\* that holds a whole packet
C29_Witness ==
    /\ sc_pc = "done"
    /\ sc_iter > Len(sc_packets) + 1
    /\ Len(sc_packets) = 2
    /\ sc_packets[1].payload = ScanPacket(7, <<7>>)
    /\ \E i \in 1..Len(sc_segs) :
          sc_segs[i].kind = "garbage" /\ sc_segs[i].bytes = write_u32(MAGIC) \o <<PACKET_VERSION>>

----------------------------------------------------------------------------
(* Claims about decode_file's failures *)

\* decode_file has been called and is past its checks of the packets
DecodeChecked == de_path # None /\ rt_pc \in {"decode", "decoded", "done"}

\* the first packet of the scanned stream carries the encrypted bit
FirstEncrypted == (de_packets[1].header.flags \div FLAG_ENCRYPTED) % 2 = 1

\* the sealed bytes of the chunks encode_file cut, in chunk order
SealedChunks ==
    [i \in 1..Len(en_chunks) |->
        (CHOOSE c \in {en_calls[j] : j \in 1..Len(en_calls)} :
            c.chunk_index = en_chunks[i].index).output]

\* C30: decode_file fails with an error when the scan finds no valid packet,
\* and when the first packet carries the encrypted flag and no password was
\* given; every failure of decode_file before the reassembly leaves the
\* output path without a file; a password given for a stream whose first
\* packet is not flagged encrypted is ignored: no key is derived and the
\* recovered bytes are written as they are
C30_DecodeFailures ==
    /\ (DecodeChecked /\ de_packets = <<>>) =>
            /\ rt_result # {}
            /\ \A r \in rt_result :
                  ~r.ok /\ r.err \in {"no valid packets found in video",
                                       "ffmpeg decode exited with status"}
    /\ (DecodeChecked /\ de_packets # <<>> /\ FirstEncrypted /\ rt_in.password = None) =>
            rt_result = {Err("file is encrypted but no password provided")}
    /\ (de_path # None /\ \E r \in rt_result : ~r.ok) => rt_output = None
    /\ (DecodeChecked /\ de_packets # <<>> /\ ~FirstEncrypted) =>
            /\ de_key = None /\ de_k = None
            /\ (rt_env.hook = "reflag" /\ rt_output # None) =>
                    rt_output[1] = Concat(SealedChunks)

\* C30's case: decode_file, called without a password on a stream whose
\* packets carry the encrypted flag, returned its error and wrote no file
C30_Witness ==
    /\ rt_env.hook = "reflag" /\ rt_in.password = None
    /\ Len(de_packets) >= 2 /\ FirstEncrypted
    /\ rt_result = {Err("file is encrypted but no password provided")}
    /\ rt_output = None

====
